---- MODULE Spec2Model ----
(***************************************************************************)
(* Verification model of the spatial reasoning and validation engine of    *)
(* archicad_builder: wall endpoint snapping, the wall connectivity         *)
(* validator, the per-story structural validator, the building-level       *)
(* validators, the room connectivity graph with its reachability queries,  *)
(* and the phase validator suite.                                          *)
(*                                                                         *)
(* Coordinates are integers on a grid.  Distances are compared as exact    *)
(* rationals of squared lengths, so no square root is ever taken.          *)
(***************************************************************************)
EXTENDS Integers, Sequences, FiniteSets, TLC

VARIABLES
    stories,     \* Building.stories: sequence of Story records
    graph,       \* the ConnectivityGraph under query (NoGraph before one exists)
    log,         \* the engine calls made so far, oldest first: what each was
                 \* given, what it returned or raised, the model before and after
    hash_order   \* the order in which this interpreter process iterates a set
                 \* of strings (fixed by the hash seed the process started with)

vars == <<stories, graph, log, hash_order>>

(***************************************************************************)
(* Bounds of the model.                                                    *)
(***************************************************************************)
GridMax == 3          \* wall endpoints lie on 0..GridMax x 0..1
MaxTol == 2           \* snapping tolerances 0..MaxTol grid units
MaxCalls == 2         \* engine calls made in succession on one model
MaxEdges == 2         \* edges of a hand-built ConnectivityGraph

(***************************************************************************)
(* Generic helpers.                                                        *)
(***************************************************************************)
Range(s) == {s[i] : i \in DOMAIN s}

RECURSIVE SeqOfSet(_)
SeqOfSet(S) ==
    IF S = {} THEN <<>>
    ELSE LET x == CHOOSE y \in S : TRUE IN <<x>> \o SeqOfSet(S \ {x})

Min2(a, b) == IF a <= b THEN a ELSE b
Max2(a, b) == IF a >= b THEN a ELSE b
Abs(a) == IF a < 0 THEN -a ELSE a

None == [none |-> TRUE]

(***************************************************************************)
(* models/geometry.py: points are <<x, y>> pairs of integers.              *)
(***************************************************************************)
Pt(x, y) == <<x, y>>

\* Squared Euclidean distance; _distance is its square root.
Dist2(p, q) == (p[1] - q[1]) * (p[1] - q[1]) + (p[2] - q[2]) * (p[2] - q[2])

\* A distance is kept as the rational n/d of its square; d = 0 is infinity.
Rat(n, d) == [n |-> n, d |-> d]
Inf == Rat(1, 0)

RECURSIVE GCD(_, _)
GCD(a, b) == IF b = 0 THEN a ELSE GCD(b, a % b)

\* The rational n/d in lowest terms.
Lowest(n, d) == Rat(n \div GCD(n, d), d \div GCD(n, d))
Less(a, b) == a.n * b.d < b.n * a.d
Leq(a, b) == a.n * b.d <= b.n * a.d
_distance(p, q) == Rat(Dist2(p, q), 1)
\* 1e-10 < d: on the grid every distance that is not zero exceeds 1e-10.
Positive(a) == a.n > 0
\* d <= tolerance, tolerance an integer number of grid units.
WithinTol(a, tol) == a.n <= tol * tol * a.d

(***************************************************************************)
(* Python string functions, tabulated on the names the model uses.         *)
(***************************************************************************)
\* str.lower()
Lower(s) ==
    CASE s = "GF" -> "gf"
      [] s = "Gf" -> "gf"
      [] s = "Partition" -> "partition"
      [] s = "South Wall" -> "south wall"
      [] s = "Corridor West" -> "corridor west"
      [] s = "Corridor East" -> "corridor east"
      [] s = "Corridor South West" -> "corridor south west"
      [] s = "Corridor North West" -> "corridor north west"
      [] s = "Corridor South East" -> "corridor south east"
      [] s = "Corridor North East" -> "corridor north east"
      [] s = "Lobby West" -> "lobby west"
      [] s = "Elevator West" -> "elevator west"
      [] s = "Vestibule West" -> "vestibule west"
      [] s = "Core Divider" -> "core divider"
      [] s = "Apt 2" -> "apt 2"
      [] s = "Apt 2 Entry" -> "apt 2 entry"
      [] s = "Living" -> "living"
      [] s = "Bedroom" -> "bedroom"
      [] s = "Bad" -> "bad"
      [] s = "Flur" -> "flur"
      [] s = "Apt 1" -> "apt 1"
      [] s = "Apt 1 Entry" -> "apt 1 entry"
      [] s = "Apt 1 Bedroom" -> "apt 1 bedroom"
      [] s = "South" -> "south"
      [] s = "East" -> "east"
      [] s = "Door1" -> "door1"
      [] s = "Win1" -> "win1"
      [] OTHER -> s

\* str.split() of a lowered name
Words(s) ==
    CASE s = "" -> <<>>
      [] s = "south wall" -> <<"south", "wall">>
      [] s = "corridor west" -> <<"corridor", "west">>
      [] s = "corridor east" -> <<"corridor", "east">>
      [] s = "corridor south west" -> <<"corridor", "south", "west">>
      [] s = "corridor north west" -> <<"corridor", "north", "west">>
      [] s = "corridor south east" -> <<"corridor", "south", "east">>
      [] s = "corridor north east" -> <<"corridor", "north", "east">>
      [] s = "lobby west" -> <<"lobby", "west">>
      [] s = "elevator west" -> <<"elevator", "west">>
      [] s = "vestibule west" -> <<"vestibule", "west">>
      [] s = "core divider" -> <<"core", "divider">>
      [] s = "apt 2" -> <<"apt", "2">>
      [] s = "apt 2 entry" -> <<"apt", "2", "entry">>
      [] s = "apt 1" -> <<"apt", "1">>
      [] s = "apt 1 entry" -> <<"apt", "1", "entry">>
      [] s = "apt 1 bedroom" -> <<"apt", "1", "bedroom">>
      [] OTHER -> <<s>>

\* s.startswith(prefix), prefix a sequence of whole words
StartsWith(s, prefix) ==
    /\ Len(Words(s)) >= Len(prefix)
    /\ \A k \in DOMAIN prefix : Words(s)[k] = prefix[k]

\* kw in s, kw one whole word
Contains(s, kw) == kw \in Range(Words(s))

\* sub in s, sub a run of whole words or the empty string
InString(sub, s) ==
    \E k \in 0..(Len(Words(s)) - Len(Words(sub))) :
       \A m \in DOMAIN Words(sub) : Words(s)[k + m] = Words(sub)[m]

\* sorted(names): the rank of a name in the order of Python strings
NameRank(name) ==
    CASE name = "" -> 0
      [] name = "Bad" -> 1
      [] name = "Bedroom" -> 2
      [] name = "Flur" -> 3
      [] name = "Living" -> 4

RECURSIVE SortedNames(_)
SortedNames(S) ==
    IF S = {} THEN <<>>
    ELSE LET first == CHOOSE x \in S : \A y \in S : NameRank(x) <= NameRank(y)
         IN  <<first>> \o SortedNames(S \ {first})

\* Iterating a set of strings: a set of two or more comes in the order the
\* process's hash seed gives it; NoHashOrder stands for a process that
\* never iterates such a set.
NoHashOrder == <<>>

IterationOrder(S, order) ==
    CASE Cardinality(S) <= 1 -> SeqOfSet(S)
      [] Cardinality(S) > 1 /\ S \subseteq Range(order) ->
            SelectSeq(order, LAMBDA x : x \in S)

(***************************************************************************)
(* models/building.py: Story.ensure_tags.                                  *)
(***************************************************************************)
NoTag == <<>>
Tag(prefix, n) == <<prefix, n>>

\* One of the seven loops of ensure_tags: the counter advances for every
\* element, a tag is written only where there is none.
EnsureTagsSeq(elems, prefix) ==
    [i \in DOMAIN elems |->
        IF elems[i].tag = NoTag THEN [elems[i] EXCEPT !.tag = Tag(prefix, i)]
        ELSE elems[i]]

ensure_tags(story) ==
    [story EXCEPT
        !.walls = EnsureTagsSeq(story.walls, "W"),
        !.doors = EnsureTagsSeq(story.doors, "D"),
        !.windows = EnsureTagsSeq(story.windows, "Win"),
        !.staircases = EnsureTagsSeq(story.staircases, "ST"),
        !.virtual_elements = EnsureTagsSeq(story.virtual_elements, "V"),
        !.spaces = EnsureTagsSeq(story.spaces, "R"),
        !.apartments = EnsureTagsSeq(story.apartments, "A")]

(***************************************************************************)
(* validators/snap.py                                                      *)
(***************************************************************************)
EndNames == <<"start", "end">>
EndPoint(wall, end_name) == IF end_name = "start" THEN wall.start ELSE wall.end

\* _project_onto_segment: None, or the foot of the perpendicular as the
\* rational point (x/den, y/den) when 0.01 < t < 0.99.
\* The point (x/den, y/den) with the three numbers in lowest terms.
RationalPoint(x, y, den) ==
    [none |-> FALSE,
     x |-> x \div GCD(GCD(Abs(x), Abs(y)), den),
     y |-> y \div GCD(GCD(Abs(x), Abs(y)), den),
     den |-> den \div GCD(GCD(Abs(x), Abs(y)), den)]

_project_onto_segment(point, seg_start, seg_end) ==
    LET dx == seg_end[1] - seg_start[1]
        dy == seg_end[2] - seg_start[2]
        length_sq == dx * dx + dy * dy
        num == (point[1] - seg_start[1]) * dx + (point[2] - seg_start[2]) * dy
    IN  IF length_sq = 0 THEN None
        ELSE IF 100 * num <= length_sq \/ 100 * num >= 99 * length_sq THEN None
        ELSE RationalPoint(seg_start[1] * length_sq + num * dx,
                           seg_start[2] * length_sq + num * dy,
                           length_sq)

\* _distance(endpoint, proj) for a rational proj.
DistToProj(point, proj) ==
    Lowest((point[1] * proj.den - proj.x) * (point[1] * proj.den - proj.x)
           + (point[2] * proj.den - proj.y) * (point[2] * proj.den - proj.y),
           proj.den * proj.den)

OnGrid(proj) == proj.x % proj.den = 0 /\ proj.y % proj.den = 0
ProjPoint(proj) == Pt(proj.x \div proj.den, proj.y \div proj.den)

\* The candidates of one endpoint in the order the two inner loops visit
\* them: every other wall's start and end, then every other wall's body.
EndpointCandidates(ws, i, endpoint) ==
    LET others == SelectSeq([j \in 1..Len(ws) |-> j], LAMBDA j : j # i)
        RECURSIVE Ends(_)
        Ends(k) ==
            IF k > Len(others) THEN <<>>
            ELSE LET o == ws[others[k]]
                 IN  << [d |-> _distance(endpoint, o.start), point |-> o.start,
                         exact |-> TRUE, tag |-> o.tag, end |-> "start"],
                        [d |-> _distance(endpoint, o.end), point |-> o.end,
                         exact |-> TRUE, tag |-> o.tag, end |-> "end"] >>
                     \o Ends(k + 1)
        RECURSIVE Bodies(_)
        Bodies(k) ==
            IF k > Len(others) THEN <<>>
            ELSE LET o == ws[others[k]]
                     proj == _project_onto_segment(endpoint, o.start, o.end)
                 IN  (IF proj.none THEN <<>>
                      ELSE << [d |-> DistToProj(endpoint, proj),
                               point |-> IF OnGrid(proj) THEN ProjPoint(proj) ELSE endpoint,
                               exact |-> OnGrid(proj), tag |-> o.tag, end |-> "body"] >>)
                     \o Bodies(k + 1)
    IN  Ends(1) \o Bodies(1)

\* best_dist / best_target after the scan: a candidate replaces the best
\* one only when 1e-10 < d < best_dist.
NoTarget == [none |-> TRUE, d |-> Inf]
Cand(c) == [none |-> FALSE, d |-> c.d, point |-> c.point, exact |-> c.exact,
            tag |-> c.tag, end |-> c.end]

RECURSIVE ScanBest(_, _, _)
ScanBest(cands, k, best) ==
    IF k > Len(cands) THEN best
    ELSE ScanBest(cands, k + 1,
            IF Positive(cands[k].d) /\ Less(cands[k].d, best.d)
            THEN Cand(cands[k]) ELSE best)

\* A variant of the test that accepts a target up to one grid unit beyond
\* the tolerance.
SnapAcceptsBeyond(best, tolerance) == ~best.none /\ WithinTol(best.d, tolerance + 1)

\* if best_target and best_dist <= tolerance
SnapAccepts(best, tolerance) == ~best.none /\ WithinTol(best.d, tolerance)

\* The assignment to wall.start or wall.end and the snap record, when the
\* best target is accepted.
ApplyBest(st, i, end_name, endpoint, best, tolerance) ==
    IF SnapAccepts(best, tolerance)
    THEN [walls |-> [st.walls EXCEPT ![i] =
                        IF end_name = "start"
                        THEN [@ EXCEPT !.start = best.point]
                        ELSE [@ EXCEPT !.end = best.point]],
          snaps |-> Append(st.snaps,
                        [wall_tag |-> st.walls[i].tag, end |-> end_name,
                         old |-> endpoint, new |-> best.point,
                         snapped_to_wall |-> best.tag,
                         snapped_to_end |-> best.end]),
          exact |-> st.exact /\ best.exact]
    ELSE st

\* The body of the outer loops for wall i and one end: the walls after it,
\* the snap records after it, and whether the new point is a grid point.
SnapOne(st, i, end_name, tolerance) ==
    ApplyBest(st, i, end_name, EndPoint(st.walls[i], end_name),
              ScanBest(EndpointCandidates(st.walls, i, EndPoint(st.walls[i], end_name)),
                       1, NoTarget),
              tolerance)

RECURSIVE SnapLoop(_, _, _)
SnapLoop(st, k, tolerance) ==
    IF k > 2 * Len(st.walls) THEN st
    ELSE SnapLoop(SnapOne(st, (k + 1) \div 2, EndNames[2 - (k % 2)], tolerance),
                  k + 1, tolerance)

SnapResult(tagged, done) ==
    [story |-> [tagged EXCEPT !.walls = done.walls], snaps |-> done.snaps,
     exact |-> done.exact]

SnapTagged(tagged, tolerance) ==
    SnapResult(tagged, SnapLoop([walls |-> tagged.walls, snaps |-> <<>>, exact |-> TRUE],
                                1, tolerance))

\* snap_endpoints(story, tolerance): the story after the call, the list of
\* snap records it returns, and whether every point it wrote is on the grid.
snap_endpoints(story, tolerance) == SnapTagged(ensure_tags(story), tolerance)

(***************************************************************************)
(* The building model.                                                     *)
(***************************************************************************)
Wall(gid, name, start, end) ==
    [global_id |-> gid, name |-> name, tag |-> NoTag, start |-> start, end |-> end,
     height |-> 60, thickness |-> 5, load_bearing |-> FALSE, is_external |-> FALSE]

Story(name, walls) ==
    [name |-> name, global_id |-> <<"story", name>>, elevation |-> 0, height |-> 60,
     walls |-> walls, doors |-> <<>>, windows |-> <<>>, staircases |-> <<>>,
     virtual_elements |-> <<>>, spaces |-> <<>>, apartments |-> <<>>,
     slabs |-> <<>>]

\* The exception class _require_story raises for a story that is not found,
\* and the one the Building model raises for a configuration it rejects
\* (only_meters).
StoryNotFoundError == "ValueError"
InvalidConfigurationError == "ValueError"

\* A variant of get_story that falls back to the first story.
StoryIndexOrFirst(name) ==
    IF \E k \in DOMAIN stories : Lower(stories[k].name) = Lower(name)
    THEN CHOOSE k \in DOMAIN stories :
            /\ Lower(stories[k].name) = Lower(name)
            /\ \A m \in 1..(k - 1) : Lower(stories[m].name) # Lower(name)
    ELSE 1

\* Building.get_story: the first story whose lowered name is the lowered
\* argument, 0 for None.
StoryIndex(name) ==
    IF \E k \in DOMAIN stories : Lower(stories[k].name) = Lower(name)
    THEN CHOOSE k \in DOMAIN stories :
            /\ Lower(stories[k].name) = Lower(name)
            /\ \A m \in 1..(k - 1) : Lower(stories[m].name) # Lower(name)
    ELSE 0

Call(op, arg, returned, after) ==
    [op |-> op, arg |-> arg, returned |-> returned, raised |-> "",
     before |-> stories, after |-> after]

NoGraph == [storey |-> "", nodes |-> <<>>, edges |-> <<>>, built |-> FALSE]

(***************************************************************************)
(* Snapping: a story of walls on the grid, snapped repeatedly.             *)
(***************************************************************************)
GridPoints == {Pt(x, y) : x \in 0..GridMax, y \in 0..1}
Tolerances == 0..MaxTol

\* Wall.start_and_end_differ holds of every wall a model is built from.
SnapInit ==
    /\ \E a, b, c, d \in GridPoints :
          /\ a # b
          /\ c # d
          /\ stories = << Story("GF", << Wall("w1", "", a, b), Wall("w2", "", c, d) >>) >>
    /\ graph = NoGraph
    /\ log = <<>>
    /\ hash_order = NoHashOrder

\* Building.snap_endpoints(story_name, tolerance)
SnapEndpoints(tolerance) ==
    /\ Len(log) < MaxCalls
    /\ \E r \in {snap_endpoints(stories[StoryIndex("GF")], tolerance)} :
          /\ r.exact
          /\ stories' = [stories EXCEPT ![StoryIndex("GF")] = r.story]
          /\ log' = Append(log, Call("snap_endpoints", tolerance, r.snaps, stories'))
          /\ UNCHANGED <<graph, hash_order>>

SnapNext == \E tolerance \in Tolerances : SnapEndpoints(tolerance)

SpecSnap == SnapInit /\ [][SnapNext]_vars

Last == log[Len(log)]
Before == log[Len(log) - 1]

\* C1: a second snap_endpoints call made right after a first one with the
\* same tolerance returns no snap record and moves no wall endpoint.
SnapIdempotent ==
    (/\ Len(log) >= 2
     /\ Last.op = "snap_endpoints"
     /\ Before.op = "snap_endpoints"
     /\ Last.arg = Before.arg)
    => (Last.returned = <<>> /\ Last.after = Last.before)


(***************************************************************************)
(* queries/connectivity.py: ConnectivityGraph and its queries.             *)
(***************************************************************************)
GraphNode(name, node_type, area, storey) ==
    [name |-> name, node_type |-> node_type, area |-> area, storey |-> storey]
GraphEdge(door_name, door_width, from_node, to_node) ==
    [door_name |-> door_name, door_width |-> door_width,
     from_node |-> from_node, to_node |-> to_node]

NodeNamesOf(g) == DOMAIN g.nodes

\* ConnectivityGraph.neighbors: one entry per edge that touches the node,
\* in edge order.
RECURSIVE NeighborsFrom(_, _, _)
NeighborsFrom(g, node_name, k) ==
    IF k > Len(g.edges) THEN <<>>
    ELSE LET edge == g.edges[k]
         IN  (IF edge.from_node = node_name THEN << <<edge.to_node, edge>> >>
              ELSE IF edge.to_node = node_name THEN << <<edge.from_node, edge>> >>
              ELSE <<>>)
             \o NeighborsFrom(g, node_name, k + 1)

\* A variant of neighbors that follows an edge only from its from_node.
RECURSIVE NeighborsForward(_, _, _)
NeighborsForward(g, node_name, k) ==
    IF k > Len(g.edges) THEN <<>>
    ELSE LET edge == g.edges[k]
         IN  (IF edge.from_node = node_name THEN << <<edge.to_node, edge>> >> ELSE <<>>)
             \o NeighborsForward(g, node_name, k + 1)

neighbors_forward_only(g, node_name) == NeighborsForward(g, node_name, 1)

neighbors(g, node_name) == NeighborsFrom(g, node_name, 1)

\* The inner for loop of reachable_from over one node's neighbors.
RECURSIVE VisitNeighbors(_, _, _)
VisitNeighbors(nbrs, k, st) ==
    IF k > Len(nbrs) THEN st
    ELSE LET neighbor == nbrs[k][1]
         IN  VisitNeighbors(nbrs, k + 1,
                IF neighbor \notin st.visited
                THEN [visited |-> st.visited \cup {neighbor},
                      queue |-> Append(st.queue, neighbor)]
                ELSE st)

\* The while loop of reachable_from.
RECURSIVE ReachLoop(_, _)
ReachLoop(g, st) ==
    IF st.queue = <<>> THEN st.visited
    ELSE LET current == Head(st.queue)
         IN  ReachLoop(g, VisitNeighbors(neighbors(g, current), 1,
                                         [visited |-> st.visited, queue |-> Tail(st.queue)]))

\* A variant of reachable_from that stops at the neighbors of the start.
reachable_from_one_door(g, start) ==
    IF start \notin NodeNamesOf(g) THEN {}
    ELSE {start} \cup {neighbors(g, start)[k][1] : k \in DOMAIN neighbors(g, start)}

\* ConnectivityGraph.reachable_from
reachable_from(g, start) ==
    IF start \notin NodeNamesOf(g) THEN {}
    ELSE ReachLoop(g, [visited |-> {start}, queue |-> <<start>>])

\* The inner for loop of has_path: found as soon as a neighbor is the end.
RECURSIVE PathNeighbors(_, _, _, _)
PathNeighbors(nbrs, k, end, st) ==
    IF k > Len(nbrs) THEN st
    ELSE LET neighbor == nbrs[k][1]
         IN  IF neighbor = end THEN [st EXCEPT !.found = TRUE]
             ELSE PathNeighbors(nbrs, k + 1, end,
                    IF neighbor \notin st.visited
                    THEN [st EXCEPT !.visited = @ \cup {neighbor},
                                    !.queue = Append(@, neighbor)]
                    ELSE st)

RECURSIVE PathLoop(_, _, _)
PathLoop(g, end, st) ==
    IF st.found THEN TRUE
    ELSE IF st.queue = <<>> THEN FALSE
    ELSE LET current == Head(st.queue)
         IN  PathLoop(g, end,
                PathNeighbors(neighbors(g, current), 1, end,
                              [st EXCEPT !.queue = Tail(@)]))

\* A variant of has_path without the start == end shortcut.
has_path_without_shortcut(g, start, end) ==
    IF start \notin NodeNamesOf(g) \/ end \notin NodeNamesOf(g) THEN FALSE
    ELSE PathLoop(g, end, [visited |-> {start}, queue |-> <<start>>, found |-> FALSE])

\* ConnectivityGraph.has_path
has_path(g, start, end) ==
    IF start \notin NodeNamesOf(g) \/ end \notin NodeNamesOf(g) THEN FALSE
    ELSE IF start = end THEN TRUE
    ELSE PathLoop(g, end, [visited |-> {start}, queue |-> <<start>>, found |-> FALSE])

(***************************************************************************)
(* Graph queries on hand-built graphs and on built ones.                   *)
(***************************************************************************)
QueryNames == {"Living", "Bedroom", "Corridor"}

NodeTypeOfName(name) ==
    CASE name = "Living" -> "living"
      [] name = "Bedroom" -> "bedroom"
      [] name = "Corridor" -> "corridor"
      [] name = "Exterior" -> "exterior"
      [] OTHER -> "unknown"

EdgeSeqs(n) == UNION {[1..m -> QueryNames \X QueryNames] : m \in 0..n}

\* A ConnectivityGraph is a plain dataclass: any node map and any edge
\* list can be put into one.
HandBuiltGraphs ==
    {[storey |-> "GF",
      nodes |-> [nm \in ns |-> GraphNode(nm, NodeTypeOfName(nm), 0, "GF")],
      edges |-> [k \in DOMAIN es |-> GraphEdge("door", 1, es[k][1], es[k][2])],
      built |-> FALSE] : ns \in SUBSET QueryNames, es \in EdgeSeqs(MaxEdges)}

\* The record of a call that reads the model: what it was given and what
\* it returned.
Answer(op, arg, returned) ==
    [op |-> op, arg |-> arg, returned |-> returned, raised |-> ""]

GraphInit ==
    /\ stories = <<>>
    /\ graph \in HandBuiltGraphs
    /\ log = <<>>
    /\ hash_order = NoHashOrder

\* A query leaves the graph and the model alone; only its answer is kept.
ReachableFrom(start) ==
    /\ graph # NoGraph
    /\ log' = << Answer("reachable_from", start, reachable_from(graph, start)) >>
    /\ UNCHANGED <<stories, graph, hash_order>>

HasPath(start, end) ==
    /\ graph # NoGraph
    /\ log' = << Answer("has_path", <<start, end>>, has_path(graph, start, end)) >>
    /\ UNCHANGED <<stories, graph, hash_order>>

GraphNext ==
    \/ \E start \in QueryNames : ReachableFrom(start)
    \/ \E start, end \in QueryNames : HasPath(start, end)

SpecGraph == GraphInit /\ [][GraphNext]_vars

Asked(op) == Len(log) >= 1 /\ Last.op = op

\* C3 as stated: for every graph and every start name, reachable_from
\* contains the start and is closed under neighbors.
ReachableContainsStartAndClosed ==
    Asked("reachable_from") =>
        /\ Last.arg \in Last.returned
        /\ \A n \in Last.returned :
              \A k \in DOMAIN neighbors(graph, n) :
                 neighbors(graph, n)[k][1] \in Last.returned

\* C3 amended: for every graph and every start name that is a node of the
\* graph, reachable_from contains the start; for every start name the
\* result is closed under neighbors; for a start name that is not a node
\* the result is empty.
ReachableOfNodeContainsStartAndClosed ==
    Asked("reachable_from") =>
        /\ Last.arg \in NodeNamesOf(graph) => Last.arg \in Last.returned
        /\ Last.arg \notin NodeNamesOf(graph) => Last.returned = {}
        /\ \A n \in Last.returned :
              \A e \in Range(graph.edges) :
                 /\ e.from_node = n => e.to_node \in Last.returned
                 /\ e.to_node = n => e.from_node \in Last.returned

\* Witness of C3: a reachable_from answer that holds the start and a
\* neighbor of it that is not the start.
ReachableWitness ==
    /\ Asked("reachable_from")
    /\ Last.arg \in Last.returned
    /\ \E n \in Last.returned : n # Last.arg

\* C6: has_path(g, a, a) is true for every graph g and every name a of a
\* node of g.
HasPathReflexive ==
    (/\ Asked("has_path")
     /\ Last.arg[1] = Last.arg[2]
     /\ Last.arg[1] \in NodeNamesOf(graph))
        => Last.returned = TRUE

\* Witness of C6: has_path asked of a node and itself in a graph where the
\* node has no edge at all, answered true.
HasPathReflexiveWitness ==
    /\ Asked("has_path")
    /\ Last.arg[1] = Last.arg[2]
    /\ Last.arg[1] \in NodeNamesOf(graph)
    /\ neighbors(graph, Last.arg[1]) = <<>>
    /\ Last.returned = TRUE


(***************************************************************************)
(* queries/connectivity.py: zones and the point tests.  Lengths are in     *)
(* ticks of 5 cm, so 0.3 m is 6 ticks and 0.15 m is 3 ticks.               *)
(***************************************************************************)
STEP_DISTANCE == 6        \* step_distance = 0.3
ZONE_TOLERANCE == 3       \* tolerance = 0.15
CM_PER_TICK == 5          \* 0.01 m is one fifth of a tick

\* Polygon2D.area: the shoelace formula.
RECURSIVE Shoelace(_, _)
Shoelace(vertices, i) ==
    IF i > Len(vertices) THEN 0
    ELSE LET j == (i % Len(vertices)) + 1
         IN  vertices[i][1] * vertices[j][2] - vertices[j][1] * vertices[i][2]
             + Shoelace(vertices, i + 1)

PolygonArea(vertices) == Abs(Shoelace(vertices, 1)) \div 2

_Zone(name, zone_type, vertices, area) ==
    [name |-> name, zone_type |-> zone_type, vertices |-> vertices, area |-> area]

\* One edge test of the ray casting loop; the division by (yj - yi) is
\* cleared by multiplying through with its sign kept.
RayCrosses(px, py, vi, vj) ==
    /\ (vi[2] > py) # (vj[2] > py)
    /\ IF vj[2] - vi[2] > 0
       THEN (px - vi[1]) * (vj[2] - vi[2]) < (vj[1] - vi[1]) * (py - vi[2])
       ELSE (px - vi[1]) * (vj[2] - vi[2]) > (vj[1] - vi[1]) * (py - vi[2])

_point_in_polygon(px, py, vertices) ==
    LET n == Len(vertices)
        crossing == {i \in 1..n :
                        RayCrosses(px, py, vertices[i], vertices[IF i = 1 THEN n ELSE i - 1])}
    IN  Cardinality(crossing) % 2 = 1

\* The square of the distance from (px, py) to the segment, as a rational.
_point_to_segment_distance(px, py, x1, y1, x2, y2) ==
    LET dx == x2 - x1
        dy == y2 - y1
        length_sq == dx * dx + dy * dy
        num == (px - x1) * dx + (py - y1) * dy
        cross == (px - x1) * dy - (py - y1) * dx
    IN  IF length_sq = 0 THEN Rat(Dist2(<<px, py>>, <<x1, y1>>), 1)
        ELSE IF num <= 0 THEN Rat(Dist2(<<px, py>>, <<x1, y1>>), 1)
        ELSE IF num >= length_sq THEN Rat(Dist2(<<px, py>>, <<x2, y2>>), 1)
        ELSE Lowest(cross * cross, length_sq)

_point_in_polygon_with_tolerance(px, py, vertices, tolerance) ==
    \/ _point_in_polygon(px, py, vertices)
    \/ \E i \in 1..Len(vertices) :
          LET a == vertices[i]
              b == vertices[(i % Len(vertices)) + 1]
          IN  WithinTol(_point_to_segment_distance(px, py, a[1], a[2], b[1], b[2]), tolerance)

SetMin(S) == CHOOSE x \in S : \A y \in S : x <= y
SetMax(S) == CHOOSE x \in S : \A y \in S : x >= y
AllXs(walls) == {w.start[1] : w \in Range(walls)} \cup {w.end[1] : w \in Range(walls)}
AllYs(walls) == {w.start[2] : w \in Range(walls)} \cup {w.end[2] : w \in Range(walls)}

\* _zone_from_walls: the bounding box of the walls, or None (an empty
\* sequence here) when it is thinner than 0.01 m.
_zone_from_walls(walls, name, zone_type) ==
    IF walls = <<>> THEN <<>>
    ELSE LET min_x == SetMin(AllXs(walls))
             max_x == SetMax(AllXs(walls))
             min_y == SetMin(AllYs(walls))
             max_y == SetMax(AllYs(walls))
             width == max_x - min_x
             height == max_y - min_y
         IN  IF CM_PER_TICK * width < 1 \/ CM_PER_TICK * height < 1 THEN <<>>
             ELSE << _Zone(name, zone_type,
                           << <<min_x, min_y>>, <<max_x, min_y>>,
                              <<max_x, max_y>>, <<min_x, max_y>> >>,
                           width * height) >>

IsCorridorWall(w) == StartsWith(Lower(w.name), <<"corridor">>)
IsLobbyWall(w) == StartsWith(Lower(w.name), <<"lobby">>)
IsElevatorWall(w) == StartsWith(Lower(w.name), <<"elevator">>)
IsVestibuleWall(w) == Contains(Lower(w.name), "vestibule")
IsCoreDividerWall(w) == StartsWith(Lower(w.name), <<"core", "divider">>)

LobbyZone(lobby_walls) ==
    IF lobby_walls = <<>> THEN <<>>
    ELSE LET min_x == SetMin(AllXs(lobby_walls))
             max_x == SetMax(AllXs(lobby_walls))
             max_y == SetMax(AllYs(lobby_walls))
             min_y == 0
         IN  << _Zone("Lobby", "lobby",
                      << <<min_x, min_y>>, <<max_x, min_y>>,
                         <<max_x, max_y>>, <<min_x, max_y>> >>,
                      (max_x - min_x) * (max_y - min_y)) >>

StaircaseZones(staircases) ==
    [k \in DOMAIN staircases |->
        _Zone(IF staircases[k].name = "" THEN "Staircase" ELSE staircases[k].name,
              "staircase", staircases[k].outline, PolygonArea(staircases[k].outline))]

_synthesize_common_zones(story) ==
    LET elevator_walls == SelectSeq(story.walls, IsElevatorWall)
        NotAlreadyIn(w) == w \notin Range(elevator_walls)
        divider_walls == SelectSeq(story.walls, IsCoreDividerWall)
    IN  _zone_from_walls(SelectSeq(story.walls, IsCorridorWall), "Corridor", "corridor")
        \o LobbyZone(SelectSeq(story.walls, IsLobbyWall))
        \o _zone_from_walls(SelectSeq(story.walls, IsVestibuleWall), "Core Vestibule", "vestibule")
        \o (IF elevator_walls = <<>> THEN <<>>
            ELSE _zone_from_walls(elevator_walls \o SelectSeq(divider_walls, NotAlreadyIn),
                                  "Elevator", "elevator"))
        \o StaircaseZones(story.staircases)


Sgn(a) == IF a > 0 THEN 1 ELSE IF a < 0 THEN -1 ELSE 0

\* _door_center_2d.  The walls that host doors are axis-aligned, where the
\* length is |dx| + |dy| and the centre lies (position + width / 2) along.
_door_center_2d(door, wall) ==
    LET dx == wall.end[1] - wall.start[1]
        dy == wall.end[2] - wall.start[2]
        along == door.position + door.width \div 2
    IN  IF dx = 0 /\ dy = 0 THEN wall.start
        ELSE <<wall.start[1] + Sgn(dx) * along, wall.start[2] + Sgn(dy) * along>>

\* _wall_normal of an axis-aligned wall: (-dy, dx) / length.
_wall_normal(wall) ==
    LET dx == wall.end[1] - wall.start[1]
        dy == wall.end[2] - wall.start[2]
    IN  IF dx = 0 /\ dy = 0 THEN <<0, 1>> ELSE <<-Sgn(dy), Sgn(dx)>>

_COMMON_TYPES == {"corridor", "vestibule", "lobby", "elevator", "staircase"}

\* list.sort(key=area)[0]: the first zone of least area.
SmallestFirst(zs) ==
    zs[CHOOSE k \in DOMAIN zs :
          /\ \A m \in DOMAIN zs : zs[k].area <= zs[m].area
          /\ \A m \in 1..(k - 1) : zs[m].area > zs[k].area]

IsCommonZone(z) == z.zone_type \in _COMMON_TYPES

\* The end of _find_zone_at_point: the choice among the matches.
PickZone(matches, common, prefer_common) ==
    IF matches = <<>> THEN <<>>
    ELSE IF Len(matches) = 1 THEN << matches[1].name >>
    ELSE IF prefer_common /\ common # <<>> THEN << SmallestFirst(common).name >>
    ELSE << SmallestFirst(matches).name >>

\* if not matches: the second pass runs only when the first found nothing.
FirstOrElse(first, second) == IF first # <<>> THEN first ELSE second

PickAmong(matches, prefer_common) ==
    PickZone(matches, SelectSeq(matches, IsCommonZone), prefer_common)

\* A variant of _find_zone_at_point that never prefers the common zones.
FindSmallestZoneAtPoint(px, py, zones, tolerance, prefer_common) ==
    LET Strict(z) == _point_in_polygon(px, py, z.vertices)
        Loose(z) == _point_in_polygon_with_tolerance(px, py, z.vertices, tolerance)
    IN  PickAmong(FirstOrElse(SelectSeq(zones, Strict), SelectSeq(zones, Loose)), FALSE)

\* _find_zone_at_point: <<name>> for a zone name, <<>> for None.
_find_zone_at_point(px, py, zones, tolerance, prefer_common) ==
    LET Strict(z) == _point_in_polygon(px, py, z.vertices)
        Loose(z) == _point_in_polygon_with_tolerance(px, py, z.vertices, tolerance)
    IN  PickAmong(FirstOrElse(SelectSeq(zones, Strict), SelectSeq(zones, Loose)),
                  prefer_common)

\* _is_outside_building: the bounding box of the external walls with a
\* margin of 0.01 m, else the floor slab outlines.
_is_outside_building(px, py, story) ==
    LET IsExternal(w) == w.is_external
        ext_walls == SelectSeq(story.walls, IsExternal)
        m == CM_PER_TICK
    IN  IF ext_walls # <<>>
        THEN \/ m * px < m * SetMin(AllXs(ext_walls)) - 1
             \/ m * px > m * SetMax(AllXs(ext_walls)) + 1
             \/ m * py < m * SetMin(AllYs(ext_walls)) - 1
             \/ m * py > m * SetMax(AllYs(ext_walls)) + 1
        ELSE ~ \E k \in DOMAIN story.slabs :
                  /\ story.slabs[k].is_floor
                  /\ _point_in_polygon(px, py, story.slabs[k].outline)

\* The zones of step 1 of build_connectivity_graph.
RECURSIVE ApartmentSpaces(_, _)
ApartmentSpaces(apartments, k) ==
    IF k > Len(apartments) THEN <<>>
    ELSE apartments[k].spaces \o ApartmentSpaces(apartments, k + 1)

SpaceZones(spaces) ==
    [k \in DOMAIN spaces |->
        _Zone(spaces[k].name, spaces[k].room_type, spaces[k].boundary,
              PolygonArea(spaces[k].boundary))]

CollectZones(story) ==
    SpaceZones(ApartmentSpaces(story.apartments, 1))
    \o SpaceZones(story.spaces)
    \o _synthesize_common_zones(story)

\* dict assignment in list order: the last zone of a name stays.
LastZoneNamed(zones, name) ==
    zones[CHOOSE k \in DOMAIN zones :
             /\ zones[k].name = name
             /\ \A m \in (k + 1)..Len(zones) : zones[m].name # name]

ZoneNodes(zones, storey_name) ==
    [name \in {zones[k].name : k \in DOMAIN zones} \cup {"Exterior"} |->
        IF name = "Exterior" THEN GraphNode("Exterior", "exterior", 0, storey_name)
        ELSE LET z == LastZoneNamed(zones, name)
             IN  GraphNode(z.name, z.zone_type, z.area, storey_name)]

_COMMON_WALL_KEYWORDS == {"core", "corridor", "staircase", "elevator", "vestibule", "lobby"}

\* wall_map.get(door.wall_id): <<wall>> for the last wall of that id, <<>>
\* for None.
WallOf(story, wall_id) ==
    IF \E k \in DOMAIN story.walls : story.walls[k].global_id = wall_id
    THEN << story.walls[CHOOSE k \in DOMAIN story.walls :
                           /\ story.walls[k].global_id = wall_id
                           /\ \A m \in (k + 1)..Len(story.walls) :
                                 story.walls[m].global_id # wall_id] >>
    ELSE <<>>

\* if zone is None and _is_outside_building(...): zone = "Exterior"
OrExterior(found, p, story) ==
    IF found = <<>> /\ _is_outside_building(p[1], p[2], story) THEN << "Exterior" >>
    ELSE found

\* x or "Unknown": None and the empty name both give "Unknown"
OrUnknown(x) == IF x = <<>> THEN "Unknown" ELSE IF x[1] = "" THEN "Unknown" ELSE x[1]

SideRecord(zone_a, zone_b) ==
    [from_node |-> OrUnknown(zone_a), to_node |-> OrUnknown(zone_b),
     resolved_a |-> zone_a # <<>>, resolved_b |-> zone_b # <<>>]

ProbeSides(c, n, story, zones, is_common_wall, step_distance) ==
    LET side_a == <<c[1] + n[1] * step_distance, c[2] + n[2] * step_distance>>
        side_b == <<c[1] - n[1] * step_distance, c[2] - n[2] * step_distance>>
    IN  SideRecord(
            OrExterior(_find_zone_at_point(side_a[1], side_a[2], zones, ZONE_TOLERANCE,
                                           is_common_wall), side_a, story),
            OrExterior(_find_zone_at_point(side_b[1], side_b[2], zones, ZONE_TOLERANCE,
                                           is_common_wall), side_b, story))

\* The two names a door resolves to: from_node and to_node.
DoorSides(story, zones, door, wall, step_distance) ==
    ProbeSides(_door_center_2d(door, wall), _wall_normal(wall), story, zones,
               \E kw \in _COMMON_WALL_KEYWORDS : Contains(Lower(wall.name), kw),
               step_distance)

EdgeFor(door, from_node, to_node) ==
    GraphEdge(IF door.name = "" THEN "unnamed" ELSE door.name, door.width, from_node, to_node)

\* A variant of the door loop body that does not skip a door whose sides
\* are the same.
AddDoorKeepingSameSides(g, story, zones, door, step_distance) ==
    LET wall == WallOf(story, door.wall_id)
    IN  IF wall = <<>> THEN g
        ELSE LET sides == DoorSides(story, zones, door, wall[1], step_distance)
             IN  IF sides.from_node # "Unknown" /\ sides.to_node # "Unknown"
                 THEN [g EXCEPT !.edges = Append(@, EdgeFor(door, sides.from_node, sides.to_node))]
                 ELSE g

\* A variant of the door loop body that gives an unresolved side a node
\* named Unknown and appends the edge all the same.
AddDoorWithUnknownNode(g, story, zones, door, step_distance) ==
    LET wall == WallOf(story, door.wall_id)
    IN  IF wall = <<>> THEN g
        ELSE LET sides == DoorSides(story, zones, door, wall[1], step_distance)
                 ends == {sides.from_node, sides.to_node}
             IN  IF sides.from_node = sides.to_node THEN g
                 ELSE [g EXCEPT
                         !.nodes = [nm \in DOMAIN g.nodes \cup ends |->
                                       IF nm \in DOMAIN g.nodes THEN g.nodes[nm]
                                       ELSE GraphNode(nm, "unknown", 0, g.storey)],
                         !.edges = Append(@, EdgeFor(door, sides.from_node, sides.to_node))]

\* The end of the door loop body, once both names are known.
AddEdge(g, door, from_node, to_node) ==
    LET MissingNodes == {nm \in {from_node, to_node} :
                            nm \notin DOMAIN g.nodes /\ nm # "Unknown"}
    IN  IF from_node = to_node THEN g
        ELSE [g EXCEPT
                !.nodes = [nm \in DOMAIN g.nodes \cup MissingNodes |->
                              IF nm \in DOMAIN g.nodes THEN g.nodes[nm]
                              ELSE GraphNode(nm, "unknown", 0, g.storey)],
                !.edges = IF from_node # "Unknown" /\ to_node # "Unknown"
                          THEN Append(@, EdgeFor(door, from_node, to_node))
                          ELSE @]

AddHostedDoor(g, door, sides) == AddEdge(g, door, sides.from_node, sides.to_node)

DoorOnWall(g, story, zones, door, wall, step_distance) ==
    IF wall = <<>> THEN g
    ELSE AddHostedDoor(g, door, DoorSides(story, zones, door, wall[1], step_distance))

\* The body of the door loop: the graph after one more door.
AddDoor(g, story, zones, door, step_distance) ==
    DoorOnWall(g, story, zones, door, WallOf(story, door.wall_id), step_distance)

RECURSIVE DoorLoop(_, _, _, _, _)
DoorLoop(g, story, zones, k, step_distance) ==
    IF k > Len(story.doors) THEN g
    ELSE DoorLoop(AddDoor(g, story, zones, story.doors[k], step_distance),
                  story, zones, k + 1, step_distance)

\* build_connectivity_graph, once _require_story has found the story.
BuildGraphOf(story, storey_name, step_distance) ==
    LET zones == CollectZones(story)
    IN  DoorLoop([storey |-> storey_name, nodes |-> ZoneNodes(zones, storey_name),
                  edges |-> <<>>, built |-> TRUE],
                 story, zones, 1, step_distance)


(***************************************************************************)
(* Building a connectivity graph from a story with two rooms, a partition  *)
(* and doors.                                                              *)
(***************************************************************************)
MaxDoors == 2             \* doors of the story

Space(gid, name, room_type, boundary) ==
    [global_id |-> gid, name |-> name, tag |-> NoTag, room_type |-> room_type,
     boundary |-> boundary]

Apartment(gid, name, boundary, spaces) ==
    [global_id |-> gid, name |-> name, tag |-> NoTag, boundary |-> boundary,
     spaces |-> spaces]

Door(gid, name, wall_id, position, width) ==
    [global_id |-> gid, name |-> name, tag |-> NoTag, wall_id |-> wall_id,
     position |-> position, width |-> width, height |-> 42]

Staircase(gid, name, outline) ==
    [global_id |-> gid, name |-> name, tag |-> NoTag, outline |-> outline]

Slab(gid, outline, is_floor) ==
    [global_id |-> gid, name |-> "", outline |-> outline, is_floor |-> is_floor]

Rect(x0, y0, x1, y1) == << <<x0, y0>>, <<x1, y0>>, <<x1, y1>>, <<x0, y1>> >>

\* The plan, in ticks: a 4 m x 3 m footprint cut in two by a partition at
\* x = 2 m, doors 0.9 m wide set every 1.25 m from 0.5 m on.
Plan ==
    [w |-> 80, h |-> 60, mid |-> 40, door_width |-> 18, door_first |-> 10,
     door_pitch |-> 25, corridor_west |-> 30, corridor_east |-> 50]

RoomNames == {"Living", "Bedroom"}
RoomChoices == {<<>>} \cup {<<nm>> : nm \in RoomNames}
\* A door sits on the partition or on the south wall, in the first or the
\* second slot, or names a wall the story does not have.
DoorChoices == ({"w_partition", "w_south"} \X {0, 1}) \cup {<<"w_none", 0>>}
DoorPlans == UNION {[1..n -> DoorChoices] : n \in 1..MaxDoors}

DoorName(k) == CASE k = 1 -> "D1" [] k = 2 -> "D2" [] k = 3 -> "D3" [] OTHER -> "D4"

PlanWalls(external, corridor) ==
    << [Wall("w_south", "South Wall", <<0, 0>>, <<Plan.w, 0>>) EXCEPT !.is_external = external],
       [Wall("w_east", "", <<Plan.w, 0>>, <<Plan.w, Plan.h>>) EXCEPT !.is_external = external],
       [Wall("w_north", "", <<Plan.w, Plan.h>>, <<0, Plan.h>>) EXCEPT !.is_external = external],
       [Wall("w_west", "", <<0, Plan.h>>, <<0, 0>>) EXCEPT !.is_external = external],
       Wall("w_partition", "Partition", <<Plan.mid, 0>>, <<Plan.mid, Plan.h>>) >>
    \o (IF corridor
        THEN << Wall("w_cw", "Corridor West", <<Plan.corridor_west, 0>>, <<Plan.corridor_west, Plan.h>>),
                Wall("w_ce", "Corridor East", <<Plan.corridor_east, 0>>, <<Plan.corridor_east, Plan.h>>) >>
        ELSE <<>>)

PlanStory(left, right, external, slab, corridor, doors) ==
    [Story("GF", PlanWalls(external, corridor)) EXCEPT
        !.apartments =
            IF left = <<>> THEN <<>>
            ELSE << Apartment("a1", "Apt 1", Rect(0, 0, Plan.mid, Plan.h),
                       << Space("s_left", left[1], NodeTypeOfName(left[1]),
                                Rect(0, 0, Plan.mid, Plan.h)) >>) >>,
        !.spaces =
            IF right = <<>> THEN <<>>
            ELSE << Space("s_right", right[1], NodeTypeOfName(right[1]),
                          Rect(Plan.mid, 0, Plan.w, Plan.h)) >>,
        !.slabs = IF slab THEN << Slab("slab", Rect(0, 0, Plan.w, Plan.h), TRUE) >> ELSE <<>>,
        !.doors = [k \in DOMAIN doors |->
                      Door(<<"door", k>>, DoorName(k), doors[k][1],
                           Plan.door_first + Plan.door_pitch * doors[k][2],
                           Plan.door_width)]]

\* The outline of the building is known from external walls, from a
\* floor slab, or not at all.
Envelopes == {"walls", "slab", "none"}

StoreyNames == {"GF", "gf", "Roof"}

\* The record of a call that raised.
Raise(op, arg, kind) ==
    [op |-> op, arg |-> arg, returned |-> <<>>, raised |-> kind]

BuildInit ==
    /\ \E left, right \in RoomChoices, envelope \in Envelopes, corridor \in BOOLEAN,
          doors \in DoorPlans :
          stories = << PlanStory(left, right, envelope = "walls", envelope = "slab",
                                 corridor, doors) >>
    /\ graph = NoGraph
    /\ log = <<>>
    /\ hash_order = NoHashOrder

\* build_connectivity_graph(building, storey_name): _require_story raises
\* ValueError for a name that get_story does not find, before any graph
\* exists.
BuildConnectivityGraph(storey_name) ==
    LET k == StoryIndex(storey_name)
    IN  IF k = 0
        THEN /\ log' = << Raise("build_connectivity_graph", storey_name, StoryNotFoundError) >>
             /\ UNCHANGED <<stories, graph, hash_order>>
        ELSE /\ graph' = BuildGraphOf(stories[k], storey_name, STEP_DISTANCE)
             /\ log' = << Answer("build_connectivity_graph", storey_name, graph') >>
             /\ UNCHANGED <<stories, hash_order>>

BuildNext == \E storey_name \in StoreyNames : BuildConnectivityGraph(storey_name)

SpecBuild == BuildInit /\ [][BuildNext]_vars


Built == Asked("build_connectivity_graph") /\ Last.raised = ""
BuiltStory == stories[CHOOSE k \in DOMAIN stories : Lower(stories[k].name) = Lower(Last.arg)]
HostedDoors == {k \in DOMAIN BuiltStory.doors : WallOf(BuiltStory, BuiltStory.doors[k].wall_id) # <<>>}
SidesOfDoor(k) ==
    DoorSides(BuiltStory, CollectZones(BuiltStory), BuiltStory.doors[k],
              WallOf(BuiltStory, BuiltStory.doors[k].wall_id)[1], STEP_DISTANCE)
HasEdgeOfDoor(k) == \E e \in Range(graph.edges) : e.door_name = BuiltStory.doors[k].name
OneSideUnresolved(k) == SidesOfDoor(k).resolved_a # SidesOfDoor(k).resolved_b
BothSidesResolved(k) == SidesOfDoor(k).resolved_a /\ SidesOfDoor(k).resolved_b

\* C4: in every graph build_connectivity_graph returns no edge has
\* from_node equal to to_node, and a door whose two probe points resolve to
\* the same zone name has no edge in the edge list.
NoSelfLoopEdge ==
    Built =>
        /\ \A e \in Range(graph.edges) : e.from_node # e.to_node
        /\ \A k \in HostedDoors :
              SidesOfDoor(k).from_node = SidesOfDoor(k).to_node => ~HasEdgeOfDoor(k)

\* Witness of C4: a built graph with an edge, for a story where some door
\* has both probe points in zones of one name and so has no edge.
SameZoneDoorSkipped ==
    /\ Built
    /\ graph.edges # <<>>
    /\ \E k \in HostedDoors :
          /\ BothSidesResolved(k)
          /\ SidesOfDoor(k).from_node = SidesOfDoor(k).to_node
          /\ SidesOfDoor(k).from_node # "Exterior"
          /\ ~HasEdgeOfDoor(k)

UnknownStoryAsked ==
    /\ Asked("build_connectivity_graph")
    /\ \A k \in DOMAIN stories : Lower(stories[k].name) # Lower(Last.arg)

ValidationError(severity, element_type, element_id, message) ==
    [severity |-> severity, element_type |-> element_type,
     element_id |-> element_id, message |-> message]

RECURSIVE Flatten(_)
Flatten(ss) == IF ss = <<>> THEN <<>> ELSE Head(ss) \o Flatten(Tail(ss))

\* "{x:.2f}": a length in ticks printed in hundredths of a metre.
Fmt2(ticks) == 5 * ticks
\* "{x:.1f}": a coordinate of whole decimetres printed in tenths of a metre.
Fmt1(ticks) == ticks \div 2

wall_ids(story) == {w.global_id : w \in Range(story.walls)}

\* Story.get_wall: <<wall>> for the first wall of that id, <<>> for None.
get_wall(story, wall_id) ==
    IF wall_id \in wall_ids(story)
    THEN << story.walls[CHOOSE k \in DOMAIN story.walls :
                           /\ story.walls[k].global_id = wall_id
                           /\ \A m \in 1..(k - 1) : story.walls[m].global_id # wall_id] >>
    ELSE <<>>

wall_length(wall) == Abs(wall.end[1] - wall.start[1]) + Abs(wall.end[2] - wall.start[2])

\* The door loop of validate_story: reference, fit in length, fit in height.
DoorChecks(story, door) ==
    IF door.wall_id \notin wall_ids(story)
    THEN << ValidationError("error", "Door", door.global_id,
                            <<"Door references non-existent wall", door.wall_id>>) >>
    ELSE LET wall == get_wall(story, door.wall_id)[1]
         IN  (IF door.position + door.width > wall_length(wall)
              THEN << ValidationError("error", "Door", door.global_id,
                         <<"Door extends past wall end", door.position, door.width,
                           Fmt2(wall_length(wall))>>) >>
              ELSE <<>>)
             \o
             (IF door.height > wall.height
              THEN << ValidationError("error", "Door", door.global_id,
                         <<"Door height exceeds wall height", door.height, wall.height>>) >>
              ELSE <<>>)

\* The window loop of validate_story.
WindowChecks(story, window) ==
    IF window.wall_id \notin wall_ids(story)
    THEN << ValidationError("error", "Window", window.global_id,
                            <<"Window references non-existent wall", window.wall_id>>) >>
    ELSE LET wall == get_wall(story, window.wall_id)[1]
         IN  (IF window.position + window.width > wall_length(wall)
              THEN << ValidationError("error", "Window", window.global_id,
                         <<"Window extends past wall end", window.position, window.width,
                           Fmt2(wall_length(wall))>>) >>
              ELSE <<>>)
             \o
             (IF window.sill_height + window.height > wall.height
              THEN << ValidationError("error", "Window", window.global_id,
                         <<"Window top exceeds wall height",
                           window.sill_height + window.height, wall.height>>) >>
              ELSE <<>>)

\* A variant of the grouping that also keeps the openings whose wall is not
\* in the story.
RECURSIVE KeysInOrderUnfiltered(_, _, _)
KeysInOrderUnfiltered(openings, ids, seen) ==
    IF openings = <<>> THEN <<>>
    ELSE IF Head(openings).wall_id \notin seen
    THEN << Head(openings).wall_id >>
         \o KeysInOrderUnfiltered(Tail(openings), ids, seen \cup {Head(openings).wall_id})
    ELSE KeysInOrderUnfiltered(Tail(openings), ids, seen)

\* The keys of doors_by_wall / windows_by_wall in insertion order: the host
\* walls in the order their first opening appears.
RECURSIVE KeysInOrder(_, _, _)
KeysInOrder(openings, ids, seen) ==
    IF openings = <<>> THEN <<>>
    ELSE LET wid == Head(openings).wall_id
         IN  IF wid \in ids /\ wid \notin seen
             THEN <<wid>> \o KeysInOrder(Tail(openings), ids, seen \cup {wid})
             ELSE KeysInOrder(Tail(openings), ids, seen)

OnWall(openings, wid) == SelectSeq(openings, LAMBDA o : o.wall_id = wid)

\* overlap = min(e1, e2) - max(s1, s2)
Overlap(o1, o2) ==
    Min2(o1.position + o1.width, o2.position + o2.width) - Max2(o1.position, o2.position)

\* wall.name if wall else wid[:8]
WallNameOr(story, wid) ==
    IF get_wall(story, wid) = <<>> THEN wid ELSE get_wall(story, wid)[1].name

\* overlap > 0.01: more than a fifth of a tick
OverTolerance(overlap) == CM_PER_TICK * overlap > 1

\* The pairs d1, d2 of one wall, d2 after d1, that overlap.
SameKindOverlaps(story, wid, on_wall, kind) ==
    Flatten([i \in DOMAIN on_wall |->
        Flatten([j \in DOMAIN on_wall |->
            IF j > i /\ OverTolerance(Overlap(on_wall[i], on_wall[j]))
            THEN << ValidationError("error", kind, on_wall[i].global_id,
                       <<kind, "overlaps with", on_wall[i].name, on_wall[j].name,
                         Fmt2(Overlap(on_wall[i], on_wall[j])), WallNameOr(story, wid),
                         Fmt2(on_wall[i].position), Fmt2(on_wall[i].position + on_wall[i].width),
                         Fmt2(on_wall[j].position), Fmt2(on_wall[j].position + on_wall[j].width)>>) >>
            ELSE <<>>])])

OverlapChecks(story, openings, kind) ==
    LET keys == KeysInOrder(openings, wall_ids(story), {})
    IN  Flatten([k \in DOMAIN keys |->
            SameKindOverlaps(story, keys[k], OnWall(openings, keys[k]), kind)])

DoorWindowOverlaps(story, wid, wall_doors, wall_windows) ==
    Flatten([i \in DOMAIN wall_doors |->
        Flatten([j \in DOMAIN wall_windows |->
            IF OverTolerance(Overlap(wall_doors[i], wall_windows[j]))
            THEN << ValidationError("error", "Door", wall_doors[i].global_id,
                       <<"Door overlaps with window", wall_doors[i].name, wall_windows[j].name,
                         Fmt2(Overlap(wall_doors[i], wall_windows[j])),
                         WallNameOr(story, wid)>>) >>
            ELSE <<>>])])

\* for wid in set(doors_by_wall.keys()) & set(windows_by_wall.keys()): the
\* walls of the intersection in the order the set yields them.
DoorWindowChecks(story, order) ==
    LET both == IterationOrder(Range(KeysInOrder(story.doors, wall_ids(story), {}))
                               \cap Range(KeysInOrder(story.windows, wall_ids(story), {})),
                               order)
    IN  Flatten([k \in DOMAIN both |->
            DoorWindowOverlaps(story, both[k], OnWall(story.doors, both[k]),
                               OnWall(story.windows, both[k]))])


\* _wall_point_at_offset on an axis-aligned wall.
_wall_point_at_offset(wall, offset) ==
    LET dx == wall.end[1] - wall.start[1]
        dy == wall.end[2] - wall.start[2]
    IN  IF dx = 0 /\ dy = 0 THEN wall.start
        ELSE <<wall.start[1] + Sgn(dx) * offset, wall.start[2] + Sgn(dy) * offset>>

\* _point_on_segment with tol = 0.05, one tick: inside the bounding box
\* widened by tol, and nearer than tol to the line.
POINT_ON_SEGMENT_TOL == 1

_point_on_segment(p, s, e, tol) ==
    LET dx == e[1] - s[1]
        dy == e[2] - s[2]
        length_sq == dx * dx + dy * dy
        cross == dy * p[1] - dx * p[2] + e[1] * s[2] - e[2] * s[1]
    IN  /\ Min2(s[1], e[1]) - tol <= p[1]
        /\ p[1] <= Max2(s[1], e[1]) + tol
        /\ Min2(s[2], e[2]) - tol <= p[2]
        /\ p[2] <= Max2(s[2], e[2]) + tol
        /\ IF length_sq = 0 THEN Dist2(p, s) < tol * tol
           ELSE cross * cross < tol * tol * length_sq

\* The findings of one opening in _check_openings_cross_walls.
OpeningCrossings(story, opening, kind) ==
    LET host == get_wall(story, opening.wall_id)
    IN  IF host = <<>> THEN <<>>
        ELSE LET p_start == _wall_point_at_offset(host[1], opening.position)
                 p_end == _wall_point_at_offset(host[1], opening.position + opening.width)
             IN  Flatten([k \in DOMAIN story.walls |->
                    IF story.walls[k].global_id = host[1].global_id THEN <<>>
                    ELSE Flatten([e \in DOMAIN EndNames |->
                            IF _point_on_segment(EndPoint(story.walls[k], EndNames[e]),
                                                 p_start, p_end, POINT_ON_SEGMENT_TOL)
                            THEN << ValidationError("error", kind, opening.global_id,
                                       <<kind, "opening crosses wall", opening.name,
                                         story.walls[k].name, EndNames[e],
                                         Fmt1(EndPoint(story.walls[k], EndNames[e])[1]),
                                         Fmt1(EndPoint(story.walls[k], EndNames[e])[2]),
                                         host[1].name>>) >>
                            ELSE <<>>])])

_check_openings_cross_walls(story) ==
    Flatten([k \in DOMAIN story.doors |-> OpeningCrossings(story, story.doors[k], "Door")])
    \o Flatten([k \in DOMAIN story.windows |->
                   OpeningCrossings(story, story.windows[k], "Window")])

CORE_KEYWORDS == {"elevator", "staircase", "core", "divider"}
CORE_MARGIN == 1          \* MARGIN = 0.05

IsCoreWall(w) == w.name # "" /\ \E kw \in CORE_KEYWORDS : Contains(Lower(w.name), kw)
IsNonCoreWall(w) ==
    /\ w.name # ""
    /\ ~ \E kw \in CORE_KEYWORDS : Contains(Lower(w.name), kw)
    /\ ~Contains(Lower(w.name), "corridor")
    /\ ~Contains(Lower(w.name), "vestibule")

BoxZone(name, walls) ==
    [name |-> name, x_min |-> SetMin(AllXs(walls)), x_max |-> SetMax(AllXs(walls)),
     y_min |-> SetMin(AllYs(walls)), y_max |-> SetMax(AllYs(walls))]

\* The zones of _check_walls_cross_core: elevator, staircase, then the core.
CoreZones(core_walls) ==
    LET elev_walls == SelectSeq(core_walls, LAMBDA w : Contains(Lower(w.name), "elevator"))
        stair_walls == SelectSeq(core_walls, LAMBDA w : Contains(Lower(w.name), "staircase"))
    IN  (IF elev_walls # <<>> THEN << BoxZone("elevator", elev_walls) >> ELSE <<>>)
        \o (IF stair_walls # <<>> THEN << BoxZone("staircase", stair_walls) >> ELSE <<>>)
        \o << BoxZone("core", core_walls) >>

\* Whether the wall gives an error against this zone.
CrossesZone(wall, z) ==
    LET wx_min == Min2(wall.start[1], wall.end[1])
        wx_max == Max2(wall.start[1], wall.end[1])
        wy_min == Min2(wall.start[2], wall.end[2])
        wy_max == Max2(wall.start[2], wall.end[2])
        is_vertical == wall.start[1] = wall.end[1]
        is_horizontal == wall.start[2] = wall.end[2]
    IN  /\ wx_max > z.x_min + CORE_MARGIN /\ wx_min < z.x_max - CORE_MARGIN
        /\ wy_max > z.y_min + CORE_MARGIN /\ wy_min < z.y_max - CORE_MARGIN
        /\ IF is_vertical
           THEN z.x_min + CORE_MARGIN < wall.start[1] /\ wall.start[1] < z.x_max - CORE_MARGIN
           ELSE IF is_horizontal
           THEN z.y_min + CORE_MARGIN < wall.start[2] /\ wall.start[2] < z.y_max - CORE_MARGIN
           ELSE TRUE

\* One error per wall: the first zone it crosses.
WallCrossing(wall, zones) ==
    LET hit == SelectSeq(zones, LAMBDA z : CrossesZone(wall, z))
    IN  IF hit = <<>> THEN <<>>
        ELSE << ValidationError("error", "Wall", wall.global_id,
                   <<"Wall crosses through area", wall.name, hit[1].name,
                     Fmt1(hit[1].x_min), Fmt1(hit[1].y_min),
                     Fmt1(hit[1].x_max), Fmt1(hit[1].y_max)>>) >>

_check_walls_cross_core(story) ==
    LET core_walls == SelectSeq(story.walls, IsCoreWall)
        non_core_walls == SelectSeq(story.walls, IsNonCoreWall)
    IN  IF core_walls = <<>> THEN <<>>
        ELSE Flatten([k \in DOMAIN non_core_walls |->
                         WallCrossing(non_core_walls[k], CoreZones(core_walls))])

validate_story(story, order) ==
    Flatten([k \in DOMAIN story.doors |-> DoorChecks(story, story.doors[k])])
    \o OverlapChecks(story, story.doors, "Door")
    \o OverlapChecks(story, story.windows, "Window")
    \o DoorWindowChecks(story, order)
    \o _check_openings_cross_walls(story)
    \o _check_walls_cross_core(story)
    \o Flatten([k \in DOMAIN story.windows |-> WindowChecks(story, story.windows[k])])


(***************************************************************************)
(* validators/connectivity.py: find_connections, validate_connectivity.    *)
(***************************************************************************)
\* tolerance = 0.02 m: two fifths of a tick
CONNECT_TOLERANCE == [n |-> 2, d |-> 5]

\* d <= tolerance and d > tolerance for a tolerance n/d ticks
WithinRatTol(a, tol) == a.n * tol.d * tol.d <= tol.n * tol.n * a.d

WallConnection(wall1_tag, wall1_end, wall2_tag, wall2_end, distance) ==
    [wall1_tag |-> wall1_tag, wall1_end |-> wall1_end, wall2_tag |-> wall2_tag,
     wall2_end |-> wall2_end, distance |-> distance]

\* What one other wall offers to an endpoint: its start, its end, its body.
OffersOf(wall, end_name, other) ==
    LET endpoint == EndPoint(wall, end_name)
    IN  << WallConnection(wall.tag, end_name, other.tag, "start",
                          _distance(endpoint, other.start)),
           WallConnection(wall.tag, end_name, other.tag, "end",
                          _distance(endpoint, other.end)),
           WallConnection(wall.tag, end_name, other.tag, "body",
                          _point_to_segment_distance(endpoint[1], endpoint[2],
                              other.start[1], other.start[2], other.end[1], other.end[2])) >>

\* d < best_dist keeps the first of the nearest offers.
RECURSIVE NearestOffer(_, _, _)
NearestOffer(offers, k, best) ==
    IF k > Len(offers) THEN best
    ELSE NearestOffer(offers, k + 1,
            IF best = <<>> THEN << offers[k] >>
            ELSE IF Less(offers[k].distance, best[1].distance) THEN << offers[k] >>
            ELSE best)

\* if best_connection and best_dist <= tolerance ... elif ... > tolerance
Verdict(wall, end_name, endpoint, best, tolerance) ==
    IF best = <<>> THEN [connections |-> <<>>, errors |-> <<>>]
    ELSE IF WithinRatTol(best[1].distance, tolerance)
    THEN [connections |-> best, errors |-> <<>>]
    ELSE [connections |-> <<>>,
          errors |-> << ValidationError("warning", "Wall", wall.global_id,
                           <<"has no connection", wall.tag, end_name,
                             Fmt2(endpoint[1]), Fmt2(endpoint[2]),
                             best[1].wall2_tag, best[1].wall2_end,
                             best[1].distance>>) >>]

\* The connection or the warning of one endpoint.
EndpointResult(walls, i, end_name, tolerance) ==
    Verdict(walls[i], end_name, EndPoint(walls[i], end_name),
            NearestOffer(Flatten([j \in DOMAIN walls |->
                            IF j = i THEN <<>> ELSE OffersOf(walls[i], end_name, walls[j])]),
                         1, <<>>),
            tolerance)

Gather(results) ==
    [connections |-> Flatten([k \in DOMAIN results |-> results[k].connections]),
     errors |-> Flatten([k \in DOMAIN results |-> results[k].errors])]

\* The loops of find_connections over the walls of a story as it stands.
ConnectionsOf(walls, tolerance) ==
    Gather(Flatten([i \in DOMAIN walls |->
              [e \in DOMAIN EndNames |-> EndpointResult(walls, i, EndNames[e], tolerance)]]))

WithStory(story, found) ==
    [story |-> story, connections |-> found.connections, errors |-> found.errors]

FindTagged(tagged, tolerance) == WithStory(tagged, ConnectionsOf(tagged.walls, tolerance))

\* find_connections: ensure_tags first, then the loops.
find_connections(story, tolerance) == FindTagged(ensure_tags(story), tolerance)

\* validate_connectivity: the errors of find_connections.
validate_connectivity(story, tolerance) == find_connections(story, tolerance)

(***************************************************************************)
(* validators/building.py                                                  *)
(***************************************************************************)
\* sorted(building.stories, key=elevation): a stable insertion sort.
RECURSIVE InsertByElevation(_, _)
InsertByElevation(sorted, story) ==
    IF sorted = <<>> THEN << story >>
    ELSE IF story.elevation < Head(sorted).elevation THEN << story >> \o sorted
    ELSE << Head(sorted) >> \o InsertByElevation(Tail(sorted), story)

RECURSIVE SortedByElevation(_, _)
SortedByElevation(ss, k) ==
    IF k = 0 THEN <<>> ELSE InsertByElevation(SortedByElevation(ss, k - 1), ss[k])

\* _points_close: the distance is at most tolerance ticks
_points_close(p1, p2, tolerance) == Dist2(p1, p2) <= tolerance * tolerance

\* _has_aligned_wall without its second test, the one of the reversed direction.
HasAlignedWallSameDirection(wall, candidates, tolerance) ==
    \E k \in DOMAIN candidates :
       /\ _points_close(wall.start, candidates[k].start, tolerance)
       /\ _points_close(wall.end, candidates[k].end, tolerance)

_has_aligned_wall(wall, candidates, tolerance) ==
    \E k \in DOMAIN candidates :
       \/ /\ _points_close(wall.start, candidates[k].start, tolerance)
          /\ _points_close(wall.end, candidates[k].end, tolerance)
       \/ /\ _points_close(wall.start, candidates[k].end, tolerance)
          /\ _points_close(wall.end, candidates[k].start, tolerance)

ALIGN_TOLERANCE == 2      \* tolerance = 0.1
CLOSURE_TOLERANCE == 1    \* tolerance = 0.05

IsLoadBearing(w) == w.load_bearing

\* The findings of one upper story against the story below it.
AlignmentOf(upper, lower, tolerance) ==
    LET upper_bearing == SelectSeq(upper.walls, IsLoadBearing)
    IN  Flatten([k \in DOMAIN upper_bearing |->
            IF _has_aligned_wall(upper_bearing[k], SelectSeq(lower.walls, IsLoadBearing),
                                 tolerance)
            THEN <<>>
            ELSE << ValidationError("error", "Wall", upper_bearing[k].global_id,
                       <<"Load-bearing wall has no aligned bearing wall below",
                         upper_bearing[k].name, upper.name, lower.name,
                         Fmt1(upper_bearing[k].start[1]), Fmt1(upper_bearing[k].start[2]),
                         Fmt1(upper_bearing[k].end[1]), Fmt1(upper_bearing[k].end[2])>>) >>])

AlignmentOfSorted(sorted, tolerance) ==
    Flatten([i \in 1..(Len(sorted) - 1) |-> AlignmentOf(sorted[i + 1], sorted[i], tolerance)])

validate_bearing_wall_alignment(building, tolerance) ==
    AlignmentOfSorted(SortedByElevation(building.stories, Len(building.stories)), tolerance)

validate_has_staircase(building) ==
    IF Len(building.stories) < 2 THEN <<>>
    ELSE Flatten([k \in DOMAIN building.stories |->
            IF Len(building.stories[k].staircases) = 0
            THEN << ValidationError("error", "Building", building.global_id,
                       <<"Multi-storey building has no staircase on",
                         building.stories[k].name>>) >>
            ELSE <<>>])

IsFloorSlab(slab) == slab.is_floor

validate_slab_completeness(building) ==
    Flatten([k \in DOMAIN building.stories |->
        IF SelectSeq(building.stories[k].slabs, IsFloorSlab) = <<>>
        THEN << ValidationError("error", "Story", building.stories[k].global_id,
                   <<"Story has no floor slab", building.stories[k].name>>) >>
        ELSE <<>>])

IsExternalWall(w) == w.is_external

\* (point, wall.name or wall.global_id, "start" / "end") of every external wall
ClosureEndpoints(external_walls) ==
    Flatten([k \in DOMAIN external_walls |->
        [e \in DOMAIN EndNames |->
            [point |-> EndPoint(external_walls[k], EndNames[e]),
             wall_name |-> IF external_walls[k].name = "" THEN external_walls[k].global_id
                           ELSE external_walls[k].name,
             end_type |-> EndNames[e]]]])

\* The error of each endpoint that no other endpoint is close to.
ClosureGaps(story, endpoints, tolerance) ==
    Flatten([k \in DOMAIN endpoints |->
        IF \E m \in DOMAIN endpoints :
              /\ ~(endpoints[k].wall_name = endpoints[m].wall_name
                   /\ endpoints[k].end_type = endpoints[m].end_type)
              /\ _points_close(endpoints[k].point, endpoints[m].point, tolerance)
        THEN <<>>
        ELSE << ValidationError("error", "Wall", endpoints[k].wall_name,
                   <<"External wall endpoint is not connected", endpoints[k].wall_name,
                     endpoints[k].end_type, Fmt2(endpoints[k].point[1]),
                     Fmt2(endpoints[k].point[2]), story.name>>) >>])

\* The closure analysis without the test of the number of external walls.
ClosureAnalysed(story, external_walls, tolerance) ==
    ClosureGaps(story, ClosureEndpoints(external_walls), tolerance)

ClosureOf(story, external_walls, tolerance) ==
    IF Len(external_walls) < 3
    THEN IF external_walls # <<>>
         THEN << ValidationError("warning", "Story", story.global_id,
                    <<"Story has not enough external walls for a closed perimeter",
                      story.name, Len(external_walls)>>) >>
         ELSE <<>>
    ELSE ClosureGaps(story, ClosureEndpoints(external_walls), tolerance)

validate_wall_closure(building, tolerance) ==
    Flatten([k \in DOMAIN building.stories |->
        ClosureOf(building.stories[k],
                  SelectSeq(building.stories[k].walls, IsExternalWall), tolerance)])

validate_building(building) ==
    validate_bearing_wall_alignment(building, ALIGN_TOLERANCE)
    \o validate_has_staircase(building)
    \o validate_slab_completeness(building)
    \o validate_wall_closure(building, CLOSURE_TOLERANCE)


(***************************************************************************)
(* models/building.py: Building.validate and Building.snap_endpoints.      *)
(***************************************************************************)
Building(ss) == [global_id |-> "building", name |-> "Building", stories |-> ss]

\* The per-story part of Building.validate for one story: validate_story,
\* then validate_connectivity, which tags the story.
StoryPass(story, connectivity, order) ==
    [story |-> connectivity.story,
     errors |-> validate_story(story, order) \o connectivity.errors]

SuiteResult(passes) ==
    [stories |-> [k \in DOMAIN passes |-> passes[k].story],
     errors |-> Flatten([k \in DOMAIN passes |-> passes[k].errors])
                \o validate_building(Building([k \in DOMAIN passes |-> passes[k].story]))]

\* Building.validate: the stories after the call and the list it returns.
BuildingValidateOf(ss, order) ==
    SuiteResult([k \in DOMAIN ss |->
                    StoryPass(ss[k], validate_connectivity(ss[k], CONNECT_TOLERANCE), order)])

(***************************************************************************)
(* Validating a plan: a perimeter with a partition, an optional stub wall  *)
(* that stops short of the south wall, doors, a window, and an optional    *)
(* upper story whose east wall is set in.                                  *)
(***************************************************************************)
MaxOpenings == 2          \* doors of the ground floor

Window(gid, name, wall_id, position, width) ==
    [global_id |-> gid, name |-> name, tag |-> NoTag, wall_id |-> wall_id,
     position |-> position, width |-> width, height |-> 24, sill_height |-> 18]

Perimeter(east_x) ==
    << [Wall("w_south", "South Wall", <<0, 0>>, <<Plan.w, 0>>)
            EXCEPT !.is_external = TRUE, !.load_bearing = TRUE],
       [Wall("w_east", "", <<east_x, 0>>, <<east_x, Plan.h>>)
            EXCEPT !.is_external = TRUE, !.load_bearing = TRUE],
       [Wall("w_north", "", <<Plan.w, Plan.h>>, <<0, Plan.h>>)
            EXCEPT !.is_external = TRUE, !.load_bearing = TRUE],
       [Wall("w_west", "", <<0, Plan.h>>, <<0, 0>>)
            EXCEPT !.is_external = TRUE, !.load_bearing = TRUE] >>

\* A door or a window of the ground floor sits in the first slot of the
\* south wall or names a wall the story does not have.
OpeningHosts == {"w_south", "w_none"}
OpeningPlans == UNION {[1..n -> OpeningHosts] : n \in 0..MaxOpenings}
WindowPlans == {<<>>} \cup {<<h>> : h \in OpeningHosts}

GroundFloor(door_hosts, window_hosts, stub, pretagged) ==
    [Story("GF", Perimeter(Plan.w)
                 \o << [Wall("w_partition", "Partition", <<Plan.mid, 0>>, <<Plan.mid, Plan.h>>)
                           EXCEPT !.tag = IF pretagged THEN Tag("P", 1) ELSE NoTag] >>
                 \o (IF stub THEN << Wall("w_stub", "Stub", <<20, 2>>, <<20, 20>>) >>
                     ELSE <<>>))
     EXCEPT
        !.slabs = << Slab("slab", Rect(0, 0, Plan.w, Plan.h), TRUE) >>,
        !.doors = [k \in DOMAIN door_hosts |->
                      Door(<<"door", k>>, DoorName(k), door_hosts[k],
                           Plan.door_first, Plan.door_width)],
        !.windows = [k \in DOMAIN window_hosts |->
                        Window(<<"window", k>>, "Win", window_hosts[k],
                               Plan.door_first + 10, Plan.door_width)]]

UpperFloor ==
    [Story("OG", Perimeter(Plan.w - 10)) EXCEPT !.elevation = 60]

ValidationPlans ==
    {<< GroundFloor(d, w, stub, pretagged) >> \o (IF upper THEN << UpperFloor >> ELSE <<>>) :
        d \in OpeningPlans, w \in WindowPlans, stub \in BOOLEAN, pretagged \in BOOLEAN,
        upper \in BOOLEAN}

ValidateInit ==
    /\ stories \in ValidationPlans
    /\ graph = NoGraph
    /\ log = <<>>
    /\ hash_order = NoHashOrder

ValidateStory(k) ==
    /\ log' = << Call("validate_story", k, validate_story(stories[k], hash_order), stories) >>
    /\ UNCHANGED <<stories, graph, hash_order>>

ValidateConnectivity(k) ==
    \E r \in {validate_connectivity(stories[k], CONNECT_TOLERANCE)} :
       /\ stories' = [stories EXCEPT ![k] = r.story]
       /\ log' = << Call("validate_connectivity", k, r.errors, stories') >>
       /\ UNCHANGED <<graph, hash_order>>

ValidateBuilding ==
    /\ log' = << Call("validate_building", <<>>, validate_building(Building(stories)), stories) >>
    /\ UNCHANGED <<stories, graph, hash_order>>

\* Building.validate()
BuildingValidate ==
    \E r \in {BuildingValidateOf(stories, hash_order)} :
       /\ stories' = r.stories
       /\ log' = << Call("validate", <<>>, r.errors, stories') >>
       /\ UNCHANGED <<graph, hash_order>>

\* Building.snap_endpoints(story_name, tolerance)
BuildingSnapEndpoints(story_name, tolerance) ==
    IF StoryIndex(story_name) = 0
    THEN /\ log' = << [Call("snap_endpoints", <<story_name, tolerance>>, <<>>, stories)
                          EXCEPT !.raised = StoryNotFoundError] >>
         /\ UNCHANGED <<stories, graph, hash_order>>
    ELSE \E r \in {snap_endpoints(stories[StoryIndex(story_name)], tolerance)} :
            /\ r.exact
            /\ stories' = [stories EXCEPT ![StoryIndex(story_name)] = r.story]
            /\ log' = << Call("snap_endpoints", <<story_name, tolerance>>, r.snaps, stories') >>
            /\ UNCHANGED <<graph, hash_order>>

ValidateNext ==
    \/ \E k \in DOMAIN stories : ValidateStory(k)
    \/ \E k \in DOMAIN stories : ValidateConnectivity(k)
    \/ ValidateBuilding
    \/ BuildingValidate
    \/ \E story_name \in {"GF", "Roof"}, tolerance \in {0, MaxTol} :
          BuildingSnapEndpoints(story_name, tolerance)

SpecValidate == ValidateInit /\ [][ValidateNext]_vars

(***************************************************************************)
(* Claims about the validators.                                            *)
(***************************************************************************)
ValidatorOps == {"validate_story", "validate_connectivity", "validate_building", "validate"}

\* C2: a validator call leaves the Building model as it found it: no field
\* of any story or element, tags included, differs after the call.
ValidatorsLeaveModelUnchanged ==
    (log # <<>> /\ Last.op \in ValidatorOps) => Last.after = Last.before

IsOrphan(opening, story) == opening.wall_id \notin wall_ids(story)

FindingsAbout(findings, kind, id) ==
    SelectSeq(findings, LAMBDA e : e.element_type = kind /\ e.element_id = id)

IsOrphanFinding(e, story) ==
    \/ /\ e.element_type = "Door"
       /\ \E d \in Range(story.doors) : IsOrphan(d, story) /\ d.global_id = e.element_id
    \/ /\ e.element_type = "Window"
       /\ \E w \in Range(story.windows) : IsOrphan(w, story) /\ w.global_id = e.element_id

WithoutOrphans(story) ==
    [story EXCEPT !.doors = SelectSeq(@, LAMBDA d : ~IsOrphan(d, story)),
                  !.windows = SelectSeq(@, LAMBDA w : ~IsOrphan(w, story))]

ExactlyOneError(about) == Len(about) = 1 /\ about[1].severity = "error"

OrphansReportedIn(story, returned, order) ==
    /\ \A d \in Range(story.doors) :
          IsOrphan(d, story) => ExactlyOneError(FindingsAbout(returned, "Door", d.global_id))
    /\ \A w \in Range(story.windows) :
          IsOrphan(w, story) => ExactlyOneError(FindingsAbout(returned, "Window", w.global_id))
    /\ SelectSeq(returned, LAMBDA e : ~IsOrphanFinding(e, story))
          = validate_story(WithoutOrphans(story), order)

\* C8: validate_story does not raise; for every door or window whose
\* wall_id matches no wall of the story it returns exactly one finding about
\* that element, of severity error; and the other findings it returns are
\* those of the story without these doors and windows, in the same order.
OrphanOpeningsReportedOnce ==
    (log # <<>> /\ Last.op = "validate_story") =>
        /\ Last.raised = ""
        /\ OrphansReportedIn(Last.before[Last.arg], Last.returned, hash_order)

\* C8 witness: validate_story has run on a story with a door and a window
\* on a missing wall, and has also returned a finding about another element.
OrphansReportedAmongOthers ==
    /\ log # <<>>
    /\ Last.op = "validate_story"
    /\ \E d \in Range(Last.before[Last.arg].doors) : IsOrphan(d, Last.before[Last.arg])
    /\ \E w \in Range(Last.before[Last.arg].windows) : IsOrphan(w, Last.before[Last.arg])
    /\ \E i \in DOMAIN Last.returned :
          ~IsOrphanFinding(Last.returned[i], Last.before[Last.arg])

(***************************************************************************)
(* The suite run again: Building.validate on a model whose doors and       *)
(* windows sit on the south and the north wall, in one interpreter process *)
(* or in a fresh one.                                                      *)
(***************************************************************************)
SuiteHosts == {"w_south", "w_north"}
HashOrders == {o \in [1..Cardinality(SuiteHosts) -> SuiteHosts] : Range(o) = SuiteHosts}
SuiteOpenings == UNION {[1..n -> SuiteHosts] : n \in 0..MaxOpenings}

SuiteInit ==
    /\ \E d, w \in SuiteOpenings : stories = << GroundFloor(d, w, FALSE, FALSE) >>
    /\ graph = NoGraph
    /\ log = <<>>
    /\ hash_order \in HashOrders

\* Building.validate()
SuiteValidate ==
    /\ Len(log) < MaxCalls
    /\ \E r \in {BuildingValidateOf(stories, hash_order)} :
          /\ stories' = r.stories
          /\ log' = Append(log, Call("validate", <<>>, r.errors, stories'))
          /\ UNCHANGED <<graph, hash_order>>

\* The model is handed to a fresh interpreter process, which starts with a
\* hash seed of its own.
NewProcess ==
    /\ log # <<>>
    /\ Len(log) < MaxCalls
    /\ hash_order' \in HashOrders \ {hash_order}
    /\ UNCHANGED <<stories, graph, log>>

SuiteNext == SuiteValidate \/ NewProcess

SpecSuite == SuiteInit /\ [][SuiteNext]_vars

\* C10: two runs of the suite in succession on the same model, nothing
\* modifying it in between, return identical finding lists.
SuiteTwiceIdentical ==
    (Len(log) >= 2 /\ Last.op = "validate" /\ Before.op = "validate"
        /\ Last.before = Before.after)
    => Last.returned = Before.returned

(***************************************************************************)
(* validators/phases.py: validate_all_phases and its ten validators, for   *)
(* models of stories without walls, windows or staircases.  Lengths are    *)
(* compared in centimetres (5 to the tick), areas in square ticks (400 to  *)
(* the square metre).  A finding's message is its code and the names       *)
(* formatted into it.                                                      *)
(***************************************************************************)
CLEAR_HEIGHT_MIN == 250
CLEAR_HEIGHT_TARGET == 252
FLOOR_STRUCTURE == 37
MIN_FACADE_2ROOM == 650
MASTER_BEDROOM_MIN_WIDTH == 280
MASTER_BEDROOM_MIN_AREA == 12
CHILD_BEDROOM_MIN_WIDTH == 260
CHILD_BEDROOM_MIN_AREA == 10
MAX_CORE_OPENING == 120
MAX_SUSPICIOUS_DOOR == 120
MIN_BATHROOM_AREA == 5
TICKS2_PER_M2 == 400

Cm(ticks) == CM_PER_TICK * ticks

XsOf(vertices) == {vertices[i][1] : i \in DOMAIN vertices}
YsOf(vertices) == {vertices[i][2] : i \in DOMAIN vertices}

\* min and max of the vertices' coordinates, as the validators take them.
Bounds(vertices) ==
    [min_x |-> SetMin(XsOf(vertices)), max_x |-> SetMax(XsOf(vertices)),
     min_y |-> SetMin(YsOf(vertices)), max_y |-> SetMax(YsOf(vertices))]

RECURSIVE SumSeq(_)
SumSeq(s) == IF s = <<>> THEN 0 ELSE Head(s) + SumSeq(Tail(s))

Larger(a, b) == IF a >= b THEN a ELSE b
Smaller(a, b) == IF a <= b THEN a ELSE b

\* Apartment.get_space_by_type
get_space_by_type(apt, room_type) ==
    SelectSeq(apt.spaces, LAMBDA s : s.room_type = room_type)

\* max(... for w in story.walls if w.is_external, default=0) over the y's
BuildingDepth(story) ==
    LET external == SelectSeq(story.walls, LAMBDA w : w.is_external)
    IN  IF external = <<>> THEN 0 ELSE SetMax(AllYs(external))

CorridorWalls(story) ==
    SelectSeq(story.walls, LAMBDA w : InString("corridor", Lower(w.name)))

\* The doors whose name holds the apartment's name and the word entry.
EntryDoors(story, apt) ==
    SelectSeq(story.doors,
              LAMBDA d : /\ InString(Lower(apt.name), Lower(d.name))
                         /\ InString("entry", Lower(d.name)))

Phase1Story(story) ==
    LET clear_height == Cm(story.height) - FLOOR_STRUCTURE
        floor_slabs == SelectSeq(story.slabs, LAMBDA s : s.is_floor)
    IN  (IF clear_height < CLEAR_HEIGHT_MIN - 1
         THEN << ValidationError("error", "Story", story.global_id, <<"E001", story.name>>) >>
         ELSE IF Abs(clear_height - CLEAR_HEIGHT_TARGET) > 1
         THEN << ValidationError("warning", "Story", story.global_id, <<"W001", story.name>>) >>
         ELSE <<>>)
        \o (IF floor_slabs = <<>>
            THEN << ValidationError("error", "Story", story.global_id, <<"E002", story.name>>) >>
            ELSE <<>>)

validate_phase1_shell(building) ==
    Flatten([k \in DOMAIN building |-> Phase1Story(building[k])])

\* Both return at once on a building of fewer than two stories.
validate_phase2_core(building) ==
    CASE Len(building) < 2 -> <<>>

validate_phase6_vertical(building) ==
    CASE Len(building) < 2 -> <<>>

MIN_CORRIDOR_WIDTH == 120     \* 1.20 m
RUN_TOLERANCE == 10           \* lo <= merged[-1][1] + 0.1
CORE_MARGIN_ON_RUN == 100     \* lo - 1.0 <= core_x <= hi + 1.0
DOOR_MARGIN_ON_RUN == 10      \* lo - 0.1 <= door_x <= hi + 0.1

\* wall.length of a wall along an axis
AxisLength(w) == Abs(w.end[1] - w.start[1]) + Abs(w.end[2] - w.start[2])

\* E021: each south corridor wall against each north corridor wall of the
\* same last word; the clear width is the distance of the walls' mean y's
\* less half of each thickness, here in halves of a tick.
CorridorWidths(story, corridor_walls) ==
    LET south_walls == SelectSeq(corridor_walls, LAMBDA w : InString("south", Lower(w.name)))
        north_walls == SelectSeq(corridor_walls, LAMBDA w : InString("north", Lower(w.name)))
        suffix(w) == Words(Lower(w.name))[Len(Words(Lower(w.name)))]
        clear_width(sw, nw) ==
            Abs((nw.start[2] + nw.end[2]) - (sw.start[2] + sw.end[2]))
               - sw.thickness - nw.thickness
    IN  Flatten([s \in DOMAIN south_walls |->
           Flatten([n \in DOMAIN north_walls |->
              IF /\ suffix(south_walls[s]) = suffix(north_walls[n])
                 /\ Cm(clear_width(south_walls[s], north_walls[n]))
                       < 2 * (MIN_CORRIDOR_WIDTH - 1)
              THEN << ValidationError("error", "Corridor", south_walls[s].global_id,
                         <<"E021", story.name, suffix(south_walls[s])>>) >>
              ELSE <<>>])])

\* E022: an apartment without a door that carries its name and "entry".
CorridorAccess(story) ==
    Flatten([a \in DOMAIN story.apartments |->
        IF EntryDoors(story, story.apartments[a]) = <<>>
        THEN << ValidationError("error", "Apartment", story.apartments[a].global_id,
                   <<"E022", story.apartments[a].name, story.name>>) >>
        ELSE <<>>])

\* W020: half the corridor walls' total length against 1.2 times the
\* largest x of the story's walls.
CorridorLength(story, corridor_walls) ==
    LET total == SumSeq([k \in DOMAIN corridor_walls |-> AxisLength(corridor_walls[k])])
        building_width == SetMax({0} \cup {Larger(w.start[1], w.end[1]) : w \in Range(story.walls)})
    IN  IF total > 0 /\ 5 * total > 12 * building_width
        THEN << ValidationError("warning", "Story", story.global_id,
                   <<"W020", story.name, total>>) >>
        ELSE <<>>

\* The (x_min, x_max) of the corridor walls that are not vertical terminators.
XIntervals(corridor_walls) ==
    LET ranges == [k \in DOMAIN corridor_walls |->
                      << Smaller(corridor_walls[k].start[1], corridor_walls[k].end[1]),
                         Larger(corridor_walls[k].start[1], corridor_walls[k].end[1]) >>]
    IN  SelectSeq(ranges, LAMBDA r : Cm(r[2] - r[1]) > 1)

\* x_intervals.sort(): tuples in lexicographic order.
IntervalBefore(a, b) == a[1] < b[1] \/ (a[1] = b[1] /\ a[2] < b[2])

RECURSIVE InsertInterval(_, _)
InsertInterval(sorted, r) ==
    IF sorted = <<>> THEN << r >>
    ELSE IF IntervalBefore(r, Head(sorted)) THEN << r >> \o sorted
    ELSE << Head(sorted) >> \o InsertInterval(Tail(sorted), r)

RECURSIVE SortedIntervals(_, _)
SortedIntervals(x_intervals, k) ==
    IF k = 0 THEN <<>>
    ELSE InsertInterval(SortedIntervals(x_intervals, k - 1), x_intervals[k])

\* The loop that merges the sorted intervals: an interval that starts at most
\* 0.1 m after the end of the last run extends that run, any other opens a
\* new run.
\* The merge loop with no tolerance for touching: only ranges that overlap
\* or meet are joined.
RECURSIVE MergeOverlapping(_, _)
MergeOverlapping(sorted, k) ==
    IF k = 1 THEN << sorted[1] >>
    ELSE LET merged == MergeOverlapping(sorted, k - 1)
             last == merged[Len(merged)]
         IN  IF sorted[k][1] <= last[2]
             THEN [merged EXCEPT ![Len(merged)] = << last[1], Larger(last[2], sorted[k][2]) >>]
             ELSE Append(merged, sorted[k])

RECURSIVE MergeIntervals(_, _)
MergeIntervals(sorted, k) ==
    IF k = 1 THEN << sorted[1] >>
    ELSE LET merged == MergeIntervals(sorted, k - 1)
             last == merged[Len(merged)]
         IN  IF Cm(sorted[k][1]) <= Cm(last[2]) + RUN_TOLERANCE
             THEN [merged EXCEPT ![Len(merged)] = << last[1], Larger(last[2], sorted[k][2]) >>]
             ELSE Append(merged, sorted[k])

\* The index of the first run the test holds for, 0 for None.
FirstRun(merged, Test(_)) ==
    IF \E idx \in DOMAIN merged : Test(merged[idx])
    THEN CHOOSE idx \in DOMAIN merged :
            Test(merged[idx]) /\ \A before \in 1..(idx - 1) : ~Test(merged[before])
    ELSE 0

\* The run the core is on: the mean x of the first staircase's outline lies
\* within 1.0 m of the run.
CoreInterval(story, merged) ==
    IF story.staircases = <<>> THEN 0
    ELSE LET verts == story.staircases[1].outline
             sum_x == SumSeq([v \in DOMAIN verts |-> Cm(verts[v][1])])
             OnRun(run) == /\ Len(verts) * (Cm(run[1]) - CORE_MARGIN_ON_RUN) <= sum_x
                           /\ sum_x <= Len(verts) * (Cm(run[2]) + CORE_MARGIN_ON_RUN)
         IN  FirstRun(merged, OnRun)

\* The x of a door on a wall along an axis: the door's position from the
\* wall's start towards its end.
DoorX(host, door) ==
    IF host.end[1] > host.start[1] THEN host.start[1] + door.position
    ELSE IF host.end[1] < host.start[1] THEN host.start[1] - door.position
    ELSE host.start[1]

DoorInterval(door_x, merged) ==
    LET OnRun(run) == /\ Cm(run[1]) - DOOR_MARGIN_ON_RUN <= Cm(door_x)
                      /\ Cm(door_x) <= Cm(run[2]) + DOOR_MARGIN_ON_RUN
    IN  FirstRun(merged, OnRun)

\* The entry doors of the apartment that sit on corridor walls.
CorridorEntryDoors(story, corridor_walls, apt) ==
    SelectSeq(story.doors,
              LAMBDA d : /\ \E w \in Range(corridor_walls) : w.global_id = d.wall_id
                         /\ InString(Lower(apt.name), Lower(d.name))
                         /\ InString("entry", Lower(d.name)))

\* next(w for w in story.walls if w.global_id == door.wall_id)
HostOf(story, door) ==
    story.walls[CHOOSE k \in DOMAIN story.walls :
                   /\ story.walls[k].global_id = door.wall_id
                   /\ \A before \in 1..(k - 1) : story.walls[before].global_id # door.wall_id]

\* E023 of one entry door.
DoorContinuity(story, apt, door, merged, core_interval_idx) ==
    LET door_x == DoorX(HostOf(story, door), door)
        door_interval_idx == DoorInterval(door_x, merged)
    IN  IF door_interval_idx = 0
        THEN << ValidationError("error", "Apartment", apt.global_id,
                   <<"E023", apt.name, door.name, story.name, door_x, "outside">>) >>
        ELSE IF core_interval_idx # 0 /\ door_interval_idx # core_interval_idx
        THEN << ValidationError("error", "Apartment", apt.global_id,
                   <<"E023", apt.name, door.name, story.name, door_x, "disconnected",
                     merged[door_interval_idx], merged[core_interval_idx]>>) >>
        ELSE <<>>

\* E023: the corridor walls' x-ranges merged into runs, the run of the core,
\* and each entry door's run against it.
CorridorContinuity(story, corridor_walls) ==
    IF corridor_walls = <<>> \/ story.apartments = <<>> \/ XIntervals(corridor_walls) = <<>>
    THEN <<>>
    ELSE LET x_intervals == XIntervals(corridor_walls)
             sorted == SortedIntervals(x_intervals, Len(x_intervals))
             merged == MergeIntervals(sorted, Len(sorted))
             core_interval_idx == CoreInterval(story, merged)
         IN  Flatten([a \in DOMAIN story.apartments |->
                LET entry_doors == CorridorEntryDoors(story, corridor_walls, story.apartments[a])
                IN  Flatten([d \in DOMAIN entry_doors |->
                       DoorContinuity(story, story.apartments[a], entry_doors[d], merged,
                                      core_interval_idx)])])

\* A story without corridor walls gets one finding if it has apartments, and
\* the loop goes on to the next story; any other story gets the checks of
\* the corridor's width, access, length and continuity.
Phase3Story(story) ==
    CASE CorridorWalls(story) = <<>> /\ story.apartments # <<>> ->
            << ValidationError("error", "Story", story.global_id, <<"E022", story.name>>) >>
      [] OTHER ->
            CorridorWidths(story, CorridorWalls(story))
            \o CorridorAccess(story)
            \o CorridorLength(story, CorridorWalls(story))
            \o CorridorContinuity(story, CorridorWalls(story))

validate_phase3_corridor(building) ==
    Flatten([k \in DOMAIN building |-> Phase3Story(building[k])])

Phase4Apartment(story, apt) ==
    LET box == Bounds(apt.boundary)
        apt_width == box.max_x - box.min_x
        apt_depth == box.max_y - box.min_y
        is_studio == get_space_by_type(apt, "bedroom") = <<>>
    IN  (IF ~ is_studio /\ Cm(apt_width) < MIN_FACADE_2ROOM - 1
         THEN << ValidationError("error", "Apartment", apt.global_id, <<"E030", apt.name>>) >>
         ELSE <<>>)
        \o (IF EntryDoors(story, apt) = <<>>
            THEN << ValidationError("error", "Apartment", apt.global_id, <<"E031", apt.name>>) >>
            ELSE <<>>)
        \o (IF apt_width > 0 /\ 2 * apt_depth > 3 * apt_width
            THEN << ValidationError("warning", "Apartment", apt.global_id, <<"W030", apt.name>>) >>
            ELSE <<>>)

\* max(... for w in story.walls if w.is_external, default=0) over the x's
BuildingWidth(story) ==
    LET external == SelectSeq(story.walls, LAMBDA w : w.is_external)
    IN  IF external = <<>> THEN 0 ELSE SetMax(AllXs(external))

\* W031: the apartments' areas against width times depth of the building.
LivingAreaRatio(story, building_area) ==
    LET living_area == SumSeq([a \in DOMAIN story.apartments |->
                                  PolygonArea(story.apartments[a].boundary)])
    IN  IF building_area > 0 /\ story.apartments # <<>>
           /\ 100 * living_area < 65 * building_area
        THEN << ValidationError("warning", "Story", story.global_id, <<"W031", story.name>>) >>
        ELSE <<>>

GRID_STEP == 10               \* grid_step = 0.5
GRID_MARGIN == 1              \* 0.05 around a zone
MIN_REGION_AREA == 400        \* min_region_area = 1.0 m2, in square ticks
CORE_WALL_KEYWORDS == {"core", "elevator", "staircase", "divider"}

Box(x0, y0, x1, y1) == <<x0, y0, x1, y1>>
BoxOf(vertices) ==
    Box(Bounds(vertices).min_x, Bounds(vertices).min_y,
        Bounds(vertices).max_x, Bounds(vertices).max_y)

\* The zones of the sampling: the apartments' boxes, the corridor between
\* its south and north walls, the staircases' boxes, the lobby and the box
\* of the core walls.
UnassignedAreaZones(story) ==
    LET corridor_walls == CorridorWalls(story)
        south_cw == SelectSeq(corridor_walls, LAMBDA w : InString("south", Lower(w.name)))
        north_cw == SelectSeq(corridor_walls, LAMBDA w : InString("north", Lower(w.name)))
        lobby_walls == SelectSeq(story.walls, LAMBDA w : InString("lobby", Lower(w.name)))
        core_walls == SelectSeq(story.walls, LAMBDA w :
                         \E kw \in CORE_WALL_KEYWORDS : InString(kw, Lower(w.name)))
    IN  [a \in DOMAIN story.apartments |-> BoxOf(story.apartments[a].boundary)]
        \o (IF south_cw # <<>> /\ north_cw # <<>>
            THEN << Box(SetMin(AllXs(south_cw \o north_cw)), SetMin(AllYs(south_cw)),
                        SetMax(AllXs(south_cw \o north_cw)), SetMax(AllYs(north_cw))) >>
            ELSE <<>>)
        \o [s \in DOMAIN story.staircases |-> BoxOf(story.staircases[s].outline)]
        \o (IF lobby_walls # <<>>
            THEN << Box(0, 0, SetMax(AllXs(lobby_walls)),
                        IF north_cw # <<>>
                        THEN Larger(SetMax(AllYs(lobby_walls)), SetMax(AllYs(north_cw)))
                        ELSE SetMax(AllYs(lobby_walls))) >>
            ELSE <<>>)
        \o (IF core_walls # <<>>
            THEN << Box(SetMin(AllXs(core_walls)), SetMin(AllYs(core_walls)),
                        SetMax(AllXs(core_walls)), SetMax(AllYs(core_walls))) >>
            ELSE <<>>)

\* The sample points, column after column: the centres of the grid cells.
SamplePoints(building_width, building_depth) ==
    LET nx == building_width \div GRID_STEP
        ny == building_depth \div GRID_STEP
    IN  [k \in 1..(nx * ny) |->
            << ((k - 1) \div ny) * GRID_STEP + GRID_STEP \div 2,
               ((k - 1) % ny) * GRID_STEP + GRID_STEP \div 2 >>]

CoveredBy(zones, p) ==
    \E k \in DOMAIN zones :
       /\ zones[k][1] - GRID_MARGIN <= p[1] /\ p[1] <= zones[k][3] + GRID_MARGIN
       /\ zones[k][2] - GRID_MARGIN <= p[2] /\ p[2] <= zones[k][4] + GRID_MARGIN

\* The neighbours the flood fill tries, with the diagonal ones added.
GridNeighboursWithDiagonals(curr) ==
    << <<curr[1] + GRID_STEP, curr[2]>>, <<curr[1] - GRID_STEP, curr[2]>>,
       <<curr[1], curr[2] + GRID_STEP>>, <<curr[1], curr[2] - GRID_STEP>>,
       <<curr[1] + GRID_STEP, curr[2] + GRID_STEP>>, <<curr[1] - GRID_STEP, curr[2] - GRID_STEP>>,
       <<curr[1] - GRID_STEP, curr[2] + GRID_STEP>>, <<curr[1] + GRID_STEP, curr[2] - GRID_STEP>> >>

\* The neighbours the flood fill tries, in its order.
GridNeighbours(curr) ==
    << <<curr[1] + GRID_STEP, curr[2]>>, <<curr[1] - GRID_STEP, curr[2]>>,
       <<curr[1], curr[2] + GRID_STEP>>, <<curr[1], curr[2] - GRID_STEP>> >>

\* The while loop of the flood fill: queue.pop() takes the last point.
RECURSIVE FloodFill(_, _)
FloodFill(uncov_set, st) ==
    IF st.queue = <<>> THEN st
    ELSE LET curr == st.queue[Len(st.queue)]
             rest == SubSeq(st.queue, 1, Len(st.queue) - 1)
         IN  IF curr \in st.visited THEN FloodFill(uncov_set, [st EXCEPT !.queue = rest])
             ELSE FloodFill(uncov_set,
                     [queue |-> rest \o SelectSeq(GridNeighbours(curr), LAMBDA nb :
                                   nb \in uncov_set /\ nb \notin st.visited \cup {curr}),
                      visited |-> st.visited \cup {curr},
                      region |-> Append(st.region, curr)])

\* The loop over the uncovered points: a point not yet visited starts a
\* region.
RECURSIVE RegionLoop(_, _, _, _)
RegionLoop(uncovered, k, visited, regions) ==
    IF k > Len(uncovered) THEN regions
    ELSE IF uncovered[k] \in visited THEN RegionLoop(uncovered, k + 1, visited, regions)
    ELSE LET filled == FloodFill(Range(uncovered),
                                 [queue |-> << uncovered[k] >>, visited |-> visited,
                                  region |-> <<>>])
         IN  RegionLoop(uncovered, k + 1, filled.visited, Append(regions, filled.region))

\* The report of one region: its number of cells and the bounds of its
\* sample points.
RegionError(story, region) ==
    IF Len(region) * GRID_STEP * GRID_STEP >= MIN_REGION_AREA
    THEN << ValidationError("error", "Story", story.global_id,
               <<"E032", story.name, Len(region), BoxOf(region)>>) >>
    ELSE <<>>

\* E032: the unassigned floor area.
UnassignedArea(story, building_width, building_depth) ==
    IF building_width * building_depth > 0 /\ story.apartments # <<>>
    THEN LET zones == UnassignedAreaZones(story)
             uncovered == SelectSeq(SamplePoints(building_width, building_depth),
                                    LAMBDA p : ~CoveredBy(zones, p))
             regions == RegionLoop(uncovered, 1, {}, <<>>)
         IN  Flatten([r \in DOMAIN regions |-> RegionError(story, regions[r])])
    ELSE <<>>

\* Without external walls building_area is 0 and the area checks W031 and
\* E032 are skipped.
Phase4Story(story) ==
    CASE SelectSeq(story.walls, LAMBDA w : w.is_external) = <<>> ->
            Flatten([a \in DOMAIN story.apartments |->
                        Phase4Apartment(story, story.apartments[a])])
      [] OTHER ->
            Flatten([a \in DOMAIN story.apartments |->
                        Phase4Apartment(story, story.apartments[a])])
            \o LivingAreaRatio(story, BuildingWidth(story) * BuildingDepth(story))
            \o UnassignedArea(story, BuildingWidth(story), BuildingDepth(story))

validate_phase4_facade(building) ==
    Flatten([k \in DOMAIN building |-> Phase4Story(building[k])])

\* E048: the mean of the vertices lies outside the apartment's box by more
\* than 0.3 m.
CentreOutside(space, box) ==
    LET n == Len(space.boundary)
        sum_x == SumSeq([i \in DOMAIN space.boundary |-> space.boundary[i][1]])
        sum_y == SumSeq([i \in DOMAIN space.boundary |-> space.boundary[i][2]])
    IN  \/ sum_x < (box.min_x - 6) * n
        \/ sum_x > (box.max_x + 6) * n
        \/ sum_y < (box.min_y - 6) * n
        \/ sum_y > (box.max_y + 6) * n

BedroomChecks(bedrooms, i) ==
    LET br == bedrooms[i]
        box == Bounds(br.boundary)
        is_master == i = 1 \/ InString("master", Lower(br.name))
        min_width == IF is_master THEN MASTER_BEDROOM_MIN_WIDTH ELSE CHILD_BEDROOM_MIN_WIDTH
        min_area == IF is_master THEN MASTER_BEDROOM_MIN_AREA ELSE CHILD_BEDROOM_MIN_AREA
    IN  (IF Cm(box.max_x - box.min_x) < min_width - 1
         THEN << ValidationError("error", "Space", br.global_id, <<"E042", br.name>>) >>
         ELSE <<>>)
        \o (IF PolygonArea(br.boundary) < TICKS2_PER_M2 * min_area - 4
            THEN << ValidationError("error", "Space", br.global_id, <<"E043", br.name>>) >>
            ELSE <<>>)

DarkRoomTypes == {"bathroom", "toilet", "hallway", "corridor", "storage"}
ServiceRoomTypes == DarkRoomTypes \cup {"kitchen"}

FacadeCheck(space, building_depth) ==
    LET box == Bounds(space.boundary)
    IN  IF space.room_type \in DarkRoomTypes THEN <<>>
        ELSE IF box.min_y = 0 \/ box.max_y = building_depth THEN <<>>
        ELSE << ValidationError("error", "Space", space.global_id, <<"E044", space.name>>) >>

\* O041: the first kitchen and the first bathroom share no edge coordinate
\* to within 0.1 m.
WetRoomsApart(kitchen, bathroom) ==
    LET k == Bounds(kitchen.boundary)
        b == Bounds(bathroom.boundary)
        Near(p, q) == Abs(p - q) < 2
    IN  ~ (\/ Near(k.max_x, b.max_x) \/ Near(k.min_x, b.min_x)
           \/ Near(k.max_x, b.min_x) \/ Near(k.min_x, b.max_x)
           \/ Near(k.max_y, b.max_y) \/ Near(k.min_y, b.min_y)
           \/ Near(k.max_y, b.min_y) \/ Near(k.min_y, b.max_y))

AspectCheck(space) ==
    LET box == Bounds(space.boundary)
        s_w == box.max_x - box.min_x
        s_h == box.max_y - box.min_y
    IN  IF space.room_type \in ServiceRoomTypes THEN <<>>
        ELSE IF /\ s_w > 0 /\ s_h > 0
                /\ 2 * Larger(s_w, s_h) > 3 * Smaller(s_w, s_h)
                /\ Smaller(s_w, s_h) < 60
        THEN << ValidationError("warning", "Space", space.global_id, <<"W042", space.name>>) >>
        ELSE <<>>

\* W043, W044, W045: the wider or the narrower side of the room's box
\* against a minimum in centimetres.
WidthCheck(space, code, wider, min_cm) ==
    LET box == Bounds(space.boundary)
        s_w == box.max_x - box.min_x
        s_h == box.max_y - box.min_y
        side == IF wider THEN Larger(s_w, s_h) ELSE Smaller(s_w, s_h)
    IN  IF Cm(side) < min_cm - 1
        THEN << ValidationError("warning", "Space", space.global_id, <<code, space.name>>) >>
        ELSE <<>>

Phase5Apartment(apt, building_depth) ==
    LET kitchens == get_space_by_type(apt, "kitchen")
        bathrooms == get_space_by_type(apt, "bathroom")
        toilets == get_space_by_type(apt, "toilet")
        livings == get_space_by_type(apt, "living")
        bedrooms == get_space_by_type(apt, "bedroom")
        hallways == get_space_by_type(apt, "hallway")
        habitable_rooms == SelectSeq(apt.spaces,
                               LAMBDA sp : sp.room_type \in {"living", "bedroom", "kitchen"})
        box == Bounds(apt.boundary)
        vorraum_area == SumSeq([i \in DOMAIN hallways |-> PolygonArea(hallways[i].boundary)])
        apt_area == PolygonArea(apt.boundary)
        AptError(code) == << ValidationError("error", "Apartment", apt.global_id,
                                             <<code, apt.name>>) >>
    IN  (IF kitchens = <<>> THEN AptError("E040") ELSE <<>>)
        \o (IF bathrooms = <<>> /\ toilets = <<>> THEN AptError("E041") ELSE <<>>)
        \o (IF livings = <<>> THEN AptError("E046") ELSE <<>>)
        \o (IF habitable_rooms = <<>> THEN AptError("E047") ELSE <<>>)
        \o Flatten([i \in DOMAIN apt.spaces |->
                       IF CentreOutside(apt.spaces[i], box)
                       THEN << ValidationError("error", "Space", apt.spaces[i].global_id,
                                               <<"E048", apt.spaces[i].name>>) >>
                       ELSE <<>>])
        \o Flatten([i \in DOMAIN bedrooms |-> BedroomChecks(bedrooms, i)])
        \o Flatten([i \in DOMAIN apt.spaces |-> FacadeCheck(apt.spaces[i], building_depth)])
        \o (IF Len(bedrooms) >= 2 /\ toilets = <<>> THEN AptError("E045") ELSE <<>>)
        \o (IF apt_area > 0 /\ 10 * vorraum_area > apt_area + 40
            THEN << ValidationError("warning", "Apartment", apt.global_id,
                                    <<"W040", apt.name>>) >>
            ELSE <<>>)
        \o (IF kitchens # <<>> /\ bathrooms # <<>> /\ WetRoomsApart(kitchens[1], bathrooms[1])
            THEN << ValidationError("optimization", "Apartment", apt.global_id,
                                    <<"O041", apt.name>>) >>
            ELSE <<>>)
        \o Flatten([i \in DOMAIN apt.spaces |-> AspectCheck(apt.spaces[i])])
        \o Flatten([i \in DOMAIN livings |->
                       WidthCheck(livings[i], "W043", TRUE,
                                  IF Len(bedrooms) >= 2 THEN 400 ELSE 360)])
        \o Flatten([i \in DOMAIN kitchens |-> WidthCheck(kitchens[i], "W044", FALSE, 220)])
        \o Flatten([i \in DOMAIN toilets |-> WidthCheck(toilets[i], "W045", FALSE, 90)])

validate_phase5_rooms(building) ==
    Flatten([k \in DOMAIN building |->
                Flatten([a \in DOMAIN building[k].apartments |->
                            Phase5Apartment(building[k].apartments[a],
                                            BuildingDepth(building[k]))])])

\* The boxes of two spaces meet or touch (eps = 0.01 is below one tick).
_boundaries_overlap(s1, s2) ==
    LET a == Bounds(s1.boundary)
        b == Bounds(s2.boundary)
    IN  /\ a.min_x <= b.max_x /\ b.min_x <= a.max_x
        /\ a.min_y <= b.max_y /\ b.min_y <= a.max_y

\* spatial_neighbors[name]: a dict keyed by room name.
SpatialNeighbors(apt, name) ==
    {apt.spaces[j].name : j \in {j \in DOMAIN apt.spaces :
        \E i \in DOMAIN apt.spaces :
            /\ i # j
            /\ apt.spaces[i].name = name
            /\ _boundaries_overlap(apt.spaces[i], apt.spaces[j])}}

\* The rooms the search starts from: the hallways, or else the first room
\* with a door to a corridor or lobby node.
EntryRooms(apt, g) ==
    LET hallways == get_space_by_type(apt, "hallway")
        corridor_nodes == {nm \in DOMAIN g.nodes : g.nodes[nm].node_type \in {"corridor", "lobby"}}
        at_corridor == SelectSeq(apt.spaces,
                          LAMBDA s : \E nb \in Range(neighbors(g, s.name)) : nb[1] \in corridor_nodes)
    IN  IF hallways # <<>> THEN {hallways[i].name : i \in DOMAIN hallways}
        ELSE IF at_corridor # <<>> THEN {at_corridor[1].name}
        ELSE {}

\* The search without the test that a door's other side is a room of the
\* apartment.
RECURSIVE ReachThroughAnyNode(_, _, _, _)
ReachThroughAnyNode(apt, g, apt_room_names, visited) ==
    LET more == UNION {{nb[1] : nb \in Range(neighbors(g, current))}
                          \cup SpatialNeighbors(apt, current) : current \in visited}
    IN  IF more \subseteq visited THEN visited
        ELSE ReachThroughAnyNode(apt, g, apt_room_names, visited \cup more)

\* The rooms the breadth-first search visits: through doors to rooms of
\* the apartment, and to any spatial neighbour.
RECURSIVE ApartmentReach(_, _, _, _)
ApartmentReach(apt, g, apt_room_names, visited) ==
    LET more == UNION {({nb[1] : nb \in Range(neighbors(g, current))} \cap apt_room_names)
                          \cup SpatialNeighbors(apt, current) : current \in visited}
    IN  IF more \subseteq visited THEN visited
        ELSE ApartmentReach(apt, g, apt_room_names, visited \cup more)

FirstSpaceNamed(apt, name) ==
    apt.spaces[CHOOSE i \in DOMAIN apt.spaces :
                  /\ apt.spaces[i].name = name
                  /\ \A j \in 1..(i - 1) : apt.spaces[j].name # name]

ConnectivityApartment(story, apt, g) ==
    LET apt_room_names == {apt.spaces[i].name : i \in DOMAIN apt.spaces}
        entry_rooms == EntryRooms(apt, g)
        unreachable == SortedNames(apt_room_names
                                   \ ApartmentReach(apt, g, apt_room_names, entry_rooms))
    IN  IF apt.spaces = <<>> \/ entry_rooms = {} THEN <<>>
        ELSE [i \in DOMAIN unreachable |->
                 ValidationError("error", "Space", FirstSpaceNamed(apt, unreachable[i]).global_id,
                                 <<"E049", unreachable[i], apt.name, story.name>>)]

ConnectivityStory(story, g) ==
    Flatten([a \in DOMAIN story.apartments |->
                ConnectivityApartment(story, story.apartments[a], g)])

validate_apartment_connectivity(building) ==
    Flatten([k \in DOMAIN building |->
                IF building[k].apartments = <<>> THEN <<>>
                ELSE ConnectivityStory(building[k],
                                       BuildGraphOf(building[k], building[k].name,
                                                    STEP_DISTANCE))])

CoreIntegrityStory(story) ==
    LET core_wall_ids == {w.global_id : w \in {w \in Range(story.walls) :
                             \E kw \in CORE_KEYWORDS : InString(kw, Lower(w.name))}}
        OnCore(opening) == \E id \in core_wall_ids : id = opening.wall_id
    IN  Flatten([d \in DOMAIN story.doors |->
                    IF OnCore(story.doors[d]) /\ Cm(story.doors[d].width) > MAX_CORE_OPENING + 1
                    THEN << ValidationError("error", "Door", story.doors[d].global_id,
                                            <<"E060", story.doors[d].name>>) >>
                    ELSE <<>>])
        \o Flatten([w \in DOMAIN story.windows |->
                       IF OnCore(story.windows[w])
                       THEN << ValidationError("error", "Window", story.windows[w].global_id,
                                               <<"E061", story.windows[w].name>>) >>
                       ELSE <<>>])
        \o Flatten([d \in DOMAIN story.doors |->
                       IF Cm(story.doors[d].width) > MAX_SUSPICIOUS_DOOR + 1
                       THEN << ValidationError("warning", "Door", story.doors[d].global_id,
                                               <<"W060", story.doors[d].name, story.name>>) >>
                       ELSE <<>>])

validate_core_integrity(building) ==
    Flatten([k \in DOMAIN building |-> CoreIntegrityStory(building[k])])

\* _edge_has_wall: a wall within 0.2 m of the edge's line that covers at
\* least half of the edge.
_edge_has_wall(story, coord, start, end, orientation) ==
    \E w \in Range(story.walls) :
       LET axis == IF orientation = "horizontal" THEN 2 ELSE 1
           along == IF orientation = "horizontal" THEN 1 ELSE 2
           overlap_start == Larger(Smaller(w.start[along], w.end[along]), start)
           overlap_end == Smaller(Larger(w.start[along], w.end[along]), end)
       IN  /\ Abs(w.start[axis] + w.end[axis] - 2 * coord) <= 8
           /\ end - start > 0
           /\ 2 * (overlap_end - overlap_start) >= end - start

\* any(room_type_str in name or space.name.lower().split()[-1] in name
\*     for name in apt_door_names): the names are taken in the set's
\* order up to the first match; the last word of a name without words is
\* an IndexError.
RECURSIVE HasDoor(_, _, _)
HasDoor(space, names, k) ==
    IF k > Len(names) THEN [raised |-> "", value |-> FALSE]
    ELSE IF InString(space.room_type, names[k]) THEN [raised |-> "", value |-> TRUE]
    ELSE IF Words(Lower(space.name)) = <<>> THEN [raised |-> "IndexError", value |-> FALSE]
    ELSE IF InString(Words(Lower(space.name))[Len(Words(Lower(space.name)))], names[k])
    THEN [raised |-> "", value |-> TRUE]
    ELSE HasDoor(space, names, k + 1)

EnclosedRoomTypes == {"bedroom", "bathroom", "toilet"}

\* E070 for the spaces from the i-th on; a raise ends the loop.
RECURSIVE RoomDoorChecks(_, _, _, _)
RoomDoorChecks(story, apt, names, i) ==
    IF i > Len(apt.spaces) THEN [raised |-> "", errors |-> <<>>]
    ELSE LET space == apt.spaces[i]
             rest == RoomDoorChecks(story, apt, names, i + 1)
             has_door == HasDoor(space, names, 1)
         IN  IF space.room_type \notin EnclosedRoomTypes THEN rest
             ELSE IF has_door.raised # "" THEN [raised |-> has_door.raised, errors |-> <<>>]
             ELSE IF rest.raised # "" THEN rest
             ELSE [rest EXCEPT !.errors =
                      (IF has_door.value THEN <<>>
                       ELSE << ValidationError("error", "Space", space.global_id,
                                               <<"E070", space.name, story.name>>) >>) \o @]

MissingWalls(story, bath) ==
    LET box == Bounds(bath.boundary)
    IN  (IF _edge_has_wall(story, box.min_y, box.min_x, box.max_x, "horizontal")
         THEN <<>> ELSE <<"south">>)
        \o (IF _edge_has_wall(story, box.max_y, box.min_x, box.max_x, "horizontal")
            THEN <<>> ELSE <<"north">>)
        \o (IF _edge_has_wall(story, box.min_x, box.min_y, box.max_y, "vertical")
            THEN <<>> ELSE <<"west">>)
        \o (IF _edge_has_wall(story, box.max_x, box.min_y, box.max_y, "vertical")
            THEN <<>> ELSE <<"east">>)

EnclosureApartment(story, apt, order) ==
    LET apt_doors == SelectSeq(story.doors,
                               LAMBDA d : InString(Lower(apt.name), Lower(d.name)))
        apt_door_names == {Lower(apt_doors[i].name) : i \in DOMAIN apt_doors}
        door_checks == RoomDoorChecks(story, apt, IterationOrder(apt_door_names, order), 1)
        bathrooms == get_space_by_type(apt, "bathroom")
    IN  IF door_checks.raised # "" THEN door_checks
        ELSE [raised |-> "",
              errors |->
                 door_checks.errors
                 \o Flatten([i \in DOMAIN bathrooms |->
                       IF MissingWalls(story, bathrooms[i]) # <<>>
                       THEN << ValidationError("error", "Space", bathrooms[i].global_id,
                                 <<"E071", bathrooms[i].name, story.name,
                                   MissingWalls(story, bathrooms[i])>>) >>
                       ELSE <<>>])
                 \o Flatten([i \in DOMAIN bathrooms |->
                       IF PolygonArea(bathrooms[i].boundary)
                             < TICKS2_PER_M2 * MIN_BATHROOM_AREA - 4
                       THEN << ValidationError("warning", "Space", bathrooms[i].global_id,
                                               <<"E041b", bathrooms[i].name>>) >>
                       ELSE <<>>])]

\* The (story, apartment) pairs in the order of the two loops.
ApartmentsOf(building) ==
    Flatten([k \in DOMAIN building |->
                [a \in DOMAIN building[k].apartments |-> <<k, a>>]])

RECURSIVE EnclosureLoop(_, _, _, _)
EnclosureLoop(building, pairs, i, order) ==
    IF i > Len(pairs) THEN [raised |-> "", errors |-> <<>>]
    ELSE LET story == building[pairs[i][1]]
             this == EnclosureApartment(story, story.apartments[pairs[i][2]], order)
             rest == EnclosureLoop(building, pairs, i + 1, order)
         IN  IF this.raised # "" THEN this
             ELSE IF rest.raised # "" THEN rest
             ELSE [raised |-> "", errors |-> this.errors \o rest.errors]

validate_interior_enclosure(building, order) ==
    EnclosureLoop(building, ApartmentsOf(building), 1, order)

\* Both loops pass over a story without corridor walls and over rooms of
\* four vertices or fewer.
_validate_dead_end_corridors(building) ==
    CASE \A k \in DOMAIN building : CorridorWalls(building[k]) = <<>> -> <<>>

_validate_windowless_alcoves(building) ==
    CASE \A k \in DOMAIN building : \A a \in DOMAIN building[k].apartments :
            \A s \in DOMAIN building[k].apartments[a].spaces :
               Len(building[k].apartments[a].spaces[s].boundary) <= 4 -> <<>>

validate_optimizations(building) ==
    _validate_dead_end_corridors(building) \o _validate_windowless_alcoves(building)

\* validate_all_phases: the validators one after the other, each list
\* appended to the last; an exception of one leaves the function at once.
PhasesAfterEnclosure(building, enclosure) ==
    IF enclosure.raised # "" THEN [raised |-> enclosure.raised, errors |-> <<>>]
    ELSE [raised |-> "",
          errors |-> validate_phase1_shell(building)
                     \o validate_phase2_core(building)
                     \o validate_phase3_corridor(building)
                     \o validate_phase4_facade(building)
                     \o validate_phase5_rooms(building)
                     \o validate_apartment_connectivity(building)
                     \o validate_phase6_vertical(building)
                     \o validate_core_integrity(building)
                     \o enclosure.errors
                     \o validate_optimizations(building)]

validate_all_phases(building, order) ==
    PhasesAfterEnclosure(building, validate_interior_enclosure(building, order))

(***************************************************************************)
(* The suite of phase validators run on one-storey models: an apartment    *)
(* of one or two rooms, drawn before any wall is.                          *)
(***************************************************************************)
MaxSpaces == 2            \* rooms of the apartment

StoryHeights == {56, 60}

\* name, room type and boundary of a room.
PhaseRooms ==
    { <<"Living", "living", Rect(0, 0, Plan.w, Plan.h)>>,
      <<"Bedroom", "bedroom", Rect(0, 0, Plan.corridor_west, Plan.h)>>,
      <<"", "bathroom", Rect(0, 0, Plan.w, Plan.h)>>,
      <<"Bad", "bathroom", Rect(0, 0, Plan.mid, Plan.corridor_west)>>,
      <<"Flur", "hallway", Rect(0, Plan.mid, Plan.w, Plan.h)>> }

PhaseRoomPlans == UNION {[1..n -> PhaseRooms] : n \in 1..MaxSpaces}

PhaseDoorNames == {"Apt 1 Entry", "Apt 1 Bedroom"}
PhaseDoorPlans == {<<>>} \cup {<<nm>> : nm \in PhaseDoorNames}

PhaseStory(height, slab, door_names, rooms) ==
    [Story("GF", <<>>) EXCEPT
        !.height = height,
        !.slabs = IF slab THEN << Slab("slab", Rect(0, 0, Plan.w, Plan.h), TRUE) >> ELSE <<>>,
        !.doors = [k \in DOMAIN door_names |->
                      Door(<<"door", k>>, door_names[k], "w_none",
                           Plan.door_first, Plan.door_width)],
        !.apartments =
            << Apartment("apt_1", "Apt 1", Rect(0, 0, Plan.w, Plan.h),
                         [k \in DOMAIN rooms |->
                             Space(<<"space", k>>, rooms[k][1], rooms[k][2], rooms[k][3])]) >>]

PhasesInit ==
    /\ \E height \in StoryHeights, slab \in BOOLEAN, door_names \in PhaseDoorPlans,
          rooms \in PhaseRoomPlans :
          stories = << PhaseStory(height, slab, door_names, rooms) >>
    /\ graph = NoGraph
    /\ log = <<>>
    /\ hash_order = NoHashOrder

\* python -m archicad_builder validate: one call of validate_all_phases.
ValidateAllPhases ==
    /\ log = <<>>
    /\ \E r \in {validate_all_phases(stories, hash_order)} :
          log' = << IF r.raised # "" THEN Raise("validate_all_phases", <<>>, r.raised)
                    ELSE Call("validate_all_phases", <<>>, r.errors, stories) >>
    /\ UNCHANGED <<stories, graph, hash_order>>

PhasesNext == ValidateAllPhases

SpecPhases == PhasesInit /\ [][PhasesNext]_vars

\* C7: the suite never raises: whatever one-storey model it is run on,
\* validate_all_phases returns its list of findings and no validator's
\* exception leaves it.
PhaseValidatorsNeverRaise ==
    (log # <<>> /\ Last.op = "validate_all_phases") => Last.raised = ""

(***************************************************************************)
(* Wall topology: find_connections, snap_endpoints and                     *)
(* validate_connectivity on a story of one or two walls drawn on the grid  *)
(* (one grid unit is 2 cm).                                                *)
(***************************************************************************)
\* tolerance = 0.001 m, the tight tolerance of the connectivity tests
TIGHT_TOLERANCE == [n |-> 1, d |-> 20]

\* A tolerance of t grid units.
GridTolerance(t) == [n |-> t, d |-> 1]

GridWalls == {w \in GridPoints \X GridPoints : w[1] # w[2]}
TopologyPlans ==
    {<< Wall("w1", "", a[1], a[2]) >> : a \in GridWalls}
    \cup {<< Wall("w1", "", a[1], a[2]), Wall("w2", "", b[1], b[2]) >> : a, b \in GridWalls}

TopologyInit ==
    /\ \E walls \in TopologyPlans : stories = << Story("GF", walls) >>
    /\ graph = NoGraph
    /\ log = <<>>
    /\ hash_order = NoHashOrder

\* find_connections(story, tolerance): the pair it returns.
FindConnections(tolerance) ==
    /\ log = <<>>
    /\ \E r \in {find_connections(stories[1], GridTolerance(tolerance))} :
          /\ stories' = << r.story >>
          /\ log' = << Call("find_connections", tolerance,
                            [connections |-> r.connections, errors |-> r.errors], stories') >>
    /\ UNCHANGED <<graph, hash_order>>

\* validate_connectivity(story, tolerance=0.001) on the story as the last
\* call left it.
ValidateConnectivityTight ==
    /\ log # <<>>
    /\ Len(log) <= MaxCalls
    /\ Last.op = "snap_endpoints"
    /\ \E r \in {validate_connectivity(stories[1], TIGHT_TOLERANCE)} :
          /\ stories' = << r.story >>
          /\ log' = Append(log, Call("validate_connectivity", TIGHT_TOLERANCE, r.errors, stories'))
    /\ UNCHANGED <<graph, hash_order>>

TopologyNext ==
    \/ \E tolerance \in Tolerances : FindConnections(tolerance)
    \/ \E tolerance \in Tolerances : log = <<>> /\ SnapEndpoints(tolerance)
    \/ ValidateConnectivityTight

SpecTopology == TopologyInit /\ [][TopologyNext]_vars

\* The connections and the warnings returned for one end of one wall.
ConnectionsFor(returned, wall, end_name) ==
    SelectSeq(returned.connections,
              LAMBDA c : c.wall1_tag = wall.tag /\ c.wall1_end = end_name)

WarningsFor(errors, wall, end_name) ==
    SelectSeq(errors,
              LAMBDA e : /\ e.severity = "warning"
                         /\ e.element_id = wall.global_id
                         /\ e.message[1] = "has no connection"
                         /\ e.message[3] = end_name)

\* Some point of another wall, endpoint or body, lies within the tolerance.
OtherWallWithin(walls, i, point, tolerance) ==
    \E j \in DOMAIN walls :
       /\ j # i
       /\ WithinRatTol(_point_to_segment_distance(point[1], point[2],
                          walls[j].start[1], walls[j].start[2],
                          walls[j].end[1], walls[j].end[2]), tolerance)

OneOutcome(walls, returned, i, end_name, tolerance) ==
    /\ Len(ConnectionsFor(returned, walls[i], end_name))
          + Len(WarningsFor(returned.errors, walls[i], end_name)) = 1
    /\ Len(ConnectionsFor(returned, walls[i], end_name)) = 1
          <=> OtherWallWithin(walls, i, EndPoint(walls[i], end_name), tolerance)

\* C11: find_connections returns, for every end of every wall of the
\* story, exactly one outcome: a connection when a point of another wall
\* lies within the tolerance, otherwise one warning that names the end.
EveryEndpointHasOneOutcome ==
    (log # <<>> /\ Last.op = "find_connections") =>
        \A i \in DOMAIN Last.after[1].walls : \A e \in DOMAIN EndNames :
           OneOutcome(Last.after[1].walls, Last.returned, i, EndNames[e],
                      GridTolerance(Last.arg))

\* The story's walls before each of the 2 * len(walls) passes of the outer
\* loops of snap_endpoints, and after the last.
RECURSIVE SnapTrace(_, _, _)
SnapTrace(st, k, tolerance) ==
    IF k > 2 * Len(st.walls) THEN << st >>
    ELSE << st >> \o SnapTrace(SnapOne(st, (k + 1) \div 2, EndNames[2 - (k % 2)], tolerance),
                               k + 1, tolerance)

\* The passes of the snap_endpoints call a log entry records.
TraceOf(call) ==
    SnapTrace([walls |-> ensure_tags(call.before[1]).walls, snaps |-> <<>>, exact |-> TRUE],
              1, call.arg)

\* The point lies on the wall, at an end or on the body.
LiesOnWall(point, wall) ==
    _point_to_segment_distance(point[1], point[2], wall.start[1], wall.start[2],
                               wall.end[1], wall.end[2]).n = 0

\* d < tolerance (strict) or d <= tolerance, d the rational of a square.
InsideTol(d, tolerance, strict) ==
    IF strict THEN d.n < tolerance * tolerance * d.d ELSE WithinTol(d, tolerance)

\* One pass, for one end of wall i: nothing but that end changes; the end
\* keeps its coordinates when no candidate that does not coincide with it
\* is inside the tolerance; otherwise it moves, by more than nothing and
\* by a distance inside the tolerance, onto a point of another wall, and
\* one snap record with the old and the new point is appended.
PassRespectsTolerance(st, st2, i, end_name, tolerance, strict) ==
    LET endpoint == EndPoint(st.walls[i], end_name)
        moved == EndPoint(st2.walls[i], end_name)
        other_end == IF end_name = "start" THEN "end" ELSE "start"
        inside == {c \in Range(EndpointCandidates(st.walls, i, endpoint)) :
                      Positive(c.d) /\ InsideTol(c.d, tolerance, strict)}
    IN  /\ \A j \in DOMAIN st.walls : j # i => st2.walls[j] = st.walls[j]
        /\ EndPoint(st2.walls[i], other_end) = EndPoint(st.walls[i], other_end)
        /\ IF inside = {}
           THEN moved = endpoint /\ st2.snaps = st.snaps
           ELSE /\ Dist2(endpoint, moved) > 0
                /\ InsideTol(_distance(endpoint, moved), tolerance, strict)
                /\ \E j \in DOMAIN st.walls : j # i /\ LiesOnWall(moved, st.walls[j])
                /\ Len(st2.snaps) = Len(st.snaps) + 1
                /\ st2.snaps[Len(st2.snaps)].old = endpoint
                /\ st2.snaps[Len(st2.snaps)].new = moved
                /\ st2.snaps[Len(st2.snaps)].end = end_name
                /\ st2.snaps[Len(st2.snaps)].wall_tag = st.walls[i].tag

CallRespectsTolerance(call, strict) ==
    \A trace \in {TraceOf(call)} :
       /\ trace[Len(trace)].walls = call.after[1].walls
       /\ trace[Len(trace)].snaps = call.returned
       /\ \A k \in 1..(Len(trace) - 1) :
             PassRespectsTolerance(trace[k], trace[k + 1], (k + 1) \div 2,
                                   EndNames[2 - (k % 2)], call.arg, strict)

FirstSnapCall == Len(log) = 1 /\ Last.op = "snap_endpoints"

\* C12, as claimed: snap_endpoints moves an endpoint only onto a point of
\* another wall more than nothing and strictly less than the tolerance
\* away; reached with every candidate that does not coincide with it at
\* the tolerance or farther, an endpoint keeps its coordinates.
SnapsStrictlyInsideTolerance ==
    FirstSnapCall => CallRespectsTolerance(Last, TRUE)

\* C12, amended: snap_endpoints moves an endpoint only onto a point of
\* another wall more than nothing and at most the tolerance away; reached
\* with every candidate that does not coincide with it farther than the
\* tolerance, an endpoint keeps its coordinates, and the call returns one
\* record for each endpoint it moved.
SnapsWithinTolerance ==
    FirstSnapCall => CallRespectsTolerance(Last, FALSE)

\* C12 witness: one call has moved an endpoint by exactly the tolerance
\* and has left another one, with no candidate within the tolerance, alone.
SnappedAtTolerance ==
    /\ FirstSnapCall
    /\ Len(Last.returned) = 1
    /\ Dist2(Last.returned[1].old, Last.returned[1].new) = Last.arg * Last.arg
    /\ \E i \in DOMAIN Last.before[1].walls :
          Last.after[1].walls[i].start = Last.before[1].walls[i].start

WallTagged(walls, tag) == walls[CHOOSE i \in DOMAIN walls : walls[i].tag = tag]

\* C13: after snap_endpoints has returned, every endpoint named in one of
\* its snap records lies on the wall the record names as its target, and
\* validate_connectivity run next with the tolerance 0.001 returns no
\* warning for that endpoint.
SnappedEndpointsStayConnected ==
    (/\ Len(log) = 2
     /\ Before.op = "snap_endpoints"
     /\ Last.op = "validate_connectivity")
    => \A k \in DOMAIN Before.returned :
          /\ LiesOnWall(EndPoint(WallTagged(Before.after[1].walls, Before.returned[k].wall_tag),
                                 Before.returned[k].end),
                        WallTagged(Before.after[1].walls, Before.returned[k].snapped_to_wall))
          /\ WarningsFor(Last.returned,
                         WallTagged(Before.after[1].walls, Before.returned[k].wall_tag),
                         Before.returned[k].end) = <<>>

\* The two ends are close but not identical, neither has any other
\* candidate within the tolerance, and the walls' other ends have none.
ClosePair(walls, end1, end2, tolerance) ==
    LET p1 == EndPoint(walls[1], end1)
        p2 == EndPoint(walls[2], end2)
        Other(end_name) == IF end_name = "start" THEN "end" ELSE "start"
        Near(i, p) == {c \in Range(EndpointCandidates(walls, i, p)) :
                          Positive(c.d) /\ WithinTol(c.d, tolerance)}
    IN  /\ p1 # p2
        /\ WithinTol(_distance(p1, p2), tolerance)
        /\ \A c \in Near(1, p1) : c.end = end2 /\ c.point = p2
        /\ \A c \in Near(2, p2) : c.end = end1 /\ c.point = p1
        /\ Near(1, EndPoint(walls[1], Other(end1))) = {}
        /\ Near(2, EndPoint(walls[2], Other(end2))) = {}

\* C14: when an end of the first wall and an end of the second wall are
\* close but not identical, snap_endpoints moves the end of the second
\* wall onto the end of the first, which keeps its coordinates.
FirstWallWins ==
    (FirstSnapCall /\ Len(Last.before[1].walls) = 2) =>
        \A e1, e2 \in Range(EndNames) :
           ClosePair(ensure_tags(Last.before[1]).walls, e1, e2, Last.arg) =>
              /\ EndPoint(Last.after[1].walls[1], e1) = EndPoint(Last.before[1].walls[1], e1)
              /\ EndPoint(Last.after[1].walls[2], e2) = EndPoint(Last.before[1].walls[1], e1)

(***************************************************************************)
(* Buildings for the cross-story validators of validators/building.py: a   *)
(* lower story with a full perimeter, optionally under an upper story      *)
(* whose walls vary in position, direction, name and flags, optionally     *)
(* under an attic with one bearing wall; the stories come in the list in   *)
(* ascending or in descending elevation.  Coordinates are in ticks of 5 cm *)
(* on whole decimetres.                                                    *)
(***************************************************************************)
Flagged(wall, load_bearing, is_external) ==
    [wall EXCEPT !.load_bearing = load_bearing, !.is_external = is_external]

\* The south wall as drawn, reversed, 10 cm longer, and ending 14 cm away.
SouthWalls == {<< <<0, 0>>, <<16, 0>> >>, << <<16, 0>>, <<0, 0>> >>,
               << <<0, 0>>, <<18, 0>> >>, << <<0, 0>>, <<18, 2>> >>}
EastWalls == {<< <<16, 0>>, <<16, 12>> >>, << <<16, 12>>, <<16, 0>> >>}
WallNamings == {"", "Wall"}

LowerStories ==
    {Story("GF",
        << Flagged(Wall(<<"GF", "south">>, "South", s[1], s[2]), bearing, TRUE),
           Flagged(Wall(<<"GF", "east">>, "East", <<16, 0>>, <<16, 12>>), TRUE, TRUE),
           Flagged(Wall(<<"GF", "north">>, "North", <<16, 12>>, <<0, 12>>), TRUE, TRUE),
           Flagged(Wall(<<"GF", "west">>, "West", <<0, 12>>, <<0, 0>>), TRUE, TRUE) >>) :
        s \in {<< <<0, 0>>, <<16, 0>> >>, << <<16, 0>>, <<0, 0>> >>}, bearing \in BOOLEAN}

UpperStories ==
    {[Story("OG",
        << Flagged(Wall(<<"OG", "south">>, name, s[1], s[2]), south_bearing, south_external) >>
        \o (IF east = <<>> THEN <<>>
            ELSE << Flagged(Wall(<<"OG", "east">>, name, east[1], east[2]), bearing, TRUE) >>)
        \o (IF north
            THEN << Flagged(Wall(<<"OG", "north">>, name, <<16, 12>>, <<0, 12>>), bearing, TRUE) >>
            ELSE <<>>)
        \o (IF west
            THEN << Flagged(Wall(<<"OG", "west">>, name, <<0, 12>>, <<0, 0>>), bearing, TRUE) >>
            ELSE <<>>)) EXCEPT !.elevation = 60] :
        s \in SouthWalls, east \in EastWalls \cup {<<>>}, north \in BOOLEAN, west \in BOOLEAN,
        name \in WallNamings, south_bearing \in BOOLEAN, south_external \in BOOLEAN,
        bearing \in BOOLEAN}

Attic ==
    [Story("DG", << Flagged(Wall(<<"DG", "south">>, "South", <<0, 0>>, <<16, 0>>), TRUE, TRUE) >>)
        EXCEPT !.elevation = 120]

Reversed(s) == [k \in DOMAIN s |-> s[Len(s) + 1 - k]]

StructurePlans ==
    {<< upper >> : upper \in UpperStories}
    \cup {IF descending THEN Reversed(plan) ELSE plan :
            plan \in {<< lower, upper >> \o (IF attic THEN << Attic >> ELSE <<>>) :
                        lower \in LowerStories, upper \in UpperStories, attic \in BOOLEAN},
            descending \in BOOLEAN}

\* The tolerances of a call: the two defaults and twice the larger one.
StructureTolerances == {CLOSURE_TOLERANCE, ALIGN_TOLERANCE, 2 * ALIGN_TOLERANCE}

StructureInit ==
    /\ stories \in StructurePlans
    /\ graph = NoGraph
    /\ log = <<>>
    /\ hash_order = NoHashOrder

ValidateBearingWallAlignment(tolerance) ==
    /\ log = <<>>
    /\ log' = << Call("validate_bearing_wall_alignment", tolerance,
                      validate_bearing_wall_alignment(Building(stories), tolerance), stories) >>
    /\ UNCHANGED <<stories, graph, hash_order>>

ValidateWallClosure(tolerance) ==
    /\ log = <<>>
    /\ log' = << Call("validate_wall_closure", tolerance,
                      validate_wall_closure(Building(stories), tolerance), stories) >>
    /\ UNCHANGED <<stories, graph, hash_order>>

StructureNext ==
    \/ \E tolerance \in StructureTolerances : ValidateBearingWallAlignment(tolerance)
    \/ \E tolerance \in StructureTolerances : ValidateWallClosure(tolerance)

SpecStructure == StructureInit /\ [][StructureNext]_vars

\* The story right under a story: the highest of the stories that lie lower.
StoriesUnder(ss, story) == {s \in Range(ss) : s.elevation < story.elevation}
StoryBelow(ss, story) ==
    CHOOSE s \in StoriesUnder(ss, story) :
        \A t \in StoriesUnder(ss, story) : t.elevation <= s.elevation

\* A bearing wall of the story whose two ends lie within the tolerance of the
\* wall's two ends, taken in the same or in the opposite direction.
Supported(wall, story, tolerance) ==
    \E other \in Range(story.walls) :
       /\ other.load_bearing
       /\ \E ends \in {<<other.start, other.end>>, <<other.end, other.start>>} :
             /\ Dist2(wall.start, ends[1]) <= tolerance * tolerance
             /\ Dist2(wall.end, ends[2]) <= tolerance * tolerance

Unsupported(ss, story, wall, tolerance) ==
    /\ wall.load_bearing
    /\ StoriesUnder(ss, story) # {}
    /\ ~Supported(wall, StoryBelow(ss, story), tolerance)

ErrorsAbout(errors, element_id) ==
    SelectSeq(errors, LAMBDA e : e.severity = "error" /\ e.element_id = element_id)

AlignmentCall == log # <<>> /\ Last.op = "validate_bearing_wall_alignment"

\* C15: validate_bearing_wall_alignment returns exactly one error for each
\* load-bearing wall of a story that has a story under it and no load-bearing
\* wall on the story immediately below whose two ends match the wall's ends,
\* in the same or the reversed direction, within the tolerance; it returns
\* nothing for any other wall, and nothing else.
OneErrorPerUnsupportedBearingWall ==
    AlignmentCall =>
        /\ \A story \in Range(Last.before) : \A wall \in Range(story.walls) :
              Len(ErrorsAbout(Last.returned, wall.global_id))
                 = IF Unsupported(Last.before, story, wall, Last.arg) THEN 1 ELSE 0
        /\ \A k \in DOMAIN Last.returned :
              \E story \in Range(Last.before) : \E wall \in Range(story.walls) :
                 Last.returned[k].element_id = wall.global_id

\* C15 witness: a call on three stories, listed from the top down, that
\* reports the attic's bearing wall, which matches a wall two stories down
\* but none on the story right below it, and accepts a bearing wall of the
\* middle story that matches a wall below it in the reversed direction only.
AlignmentReportedAndAccepted ==
    /\ AlignmentCall
    /\ Len(Last.before) = 3
    /\ Last.before[1].name = "DG"
    /\ Len(ErrorsAbout(Last.returned, <<"DG", "south">>)) = 1
    /\ Supported(Last.before[1].walls[1], Last.before[3], Last.arg)
    /\ \E wall \in Range(Last.before[2].walls) :
          /\ wall.load_bearing
          /\ ErrorsAbout(Last.returned, wall.global_id) = <<>>
          /\ \A other \in Range(Last.before[3].walls) :
                other.load_bearing =>
                   \/ Dist2(wall.start, other.start) > Last.arg * Last.arg
                   \/ Dist2(wall.end, other.end) > Last.arg * Last.arg

ClosureCall == log # <<>> /\ Last.op = "validate_wall_closure"
ExternalWalls(story) == SelectSeq(story.walls, IsExternalWall)
WallLabel(wall) == IF wall.name = "" THEN wall.global_id ELSE wall.name

\* No other end of an external wall of the story lies within the tolerance
\* of end e of the i-th external wall.
Isolated(external_walls, i, e, tolerance) ==
    \A j \in DOMAIN external_walls : \A f \in Range(EndNames) :
       <<j, f>> # <<i, e>> =>
          Dist2(EndPoint(external_walls[i], e), EndPoint(external_walls[j], f))
             > tolerance * tolerance

\* The closure errors returned for an end of a wall of the story.
ClosureErrorsFor(errors, story, wall, e) ==
    SelectSeq(errors, LAMBDA err :
        /\ err.severity = "error"
        /\ err.element_type = "Wall"
        /\ err.message[1] = "External wall endpoint is not connected"
        /\ err.message[2] = WallLabel(wall)
        /\ err.message[3] = e
        /\ err.message[4] = Fmt2(EndPoint(wall, e)[1])
        /\ err.message[5] = Fmt2(EndPoint(wall, e)[2])
        /\ err.message[6] = story.name)

\* The closure errors and the warnings returned for a story.
ClosureErrorsOn(errors, story) ==
    SelectSeq(errors, LAMBDA err : err.element_type = "Wall" /\ err.message[6] = story.name)
ClosureWarningsOn(errors, story) ==
    SelectSeq(errors, LAMBDA err :
        /\ err.severity = "warning"
        /\ err.element_type = "Story"
        /\ err.element_id = story.global_id)

\* C16: on a story with at least three external walls validate_wall_closure
\* returns an error for an end of an external wall if and only if no other
\* end of an external wall of that story lies within the tolerance of it, so
\* a closed perimeter gets no closure error.
ClosureErrorIffIsolated ==
    ClosureCall =>
        \A story \in Range(Last.before) :
           Len(ExternalWalls(story)) >= 3 =>
              \A i \in DOMAIN ExternalWalls(story) : \A e \in Range(EndNames) :
                 (ClosureErrorsFor(Last.returned, story, ExternalWalls(story)[i], e) # <<>>)
                    <=> Isolated(ExternalWalls(story), i, e, Last.arg)

\* C17, as claimed: every story with fewer than three external walls gets a
\* warning from validate_wall_closure and no closure error.
WarningForEveryStoryUnderThreeExternalWalls ==
    ClosureCall =>
        \A story \in Range(Last.before) :
           Len(ExternalWalls(story)) < 3 =>
              /\ ClosureWarningsOn(Last.returned, story) # <<>>
              /\ ClosureErrorsOn(Last.returned, story) = <<>>

\* C17, amended: a story with one or two external walls gets exactly one
\* warning from validate_wall_closure, a story with no external wall gets
\* none, a story with three or more gets none, and a story with fewer than
\* three external walls gets no closure error.
WarningForOneOrTwoExternalWalls ==
    ClosureCall =>
        \A story \in Range(Last.before) :
           /\ Len(ClosureWarningsOn(Last.returned, story))
                 = IF Len(ExternalWalls(story)) \in {1, 2} THEN 1 ELSE 0
           /\ Len(ExternalWalls(story)) < 3 => ClosureErrorsOn(Last.returned, story) = <<>>

\* C17 witness: a call on a building with a story of two external walls that
\* has an end no other end is near, and gets one warning and no closure error.
WarnedInsteadOfAnalysed ==
    /\ ClosureCall
    /\ \E story \in Range(Last.before) :
          /\ Len(ExternalWalls(story)) = 2
          /\ \E e \in Range(EndNames) : Isolated(ExternalWalls(story), 1, e, Last.arg)
          /\ Len(ClosureWarningsOn(Last.returned, story)) = 1
          /\ ClosureErrorsOn(Last.returned, story) = <<>>

(***************************************************************************)
(* Stories for validate_phase3_corridor, in ticks of 5 cm: a 20 m front    *)
(* with a corridor of a west pair of walls over x in [0, 8 m], an east     *)
(* pair that ends at 20 m and starts 0.1 m, 0.15 m or 6 m after the west   *)
(* pair, either pair present or not, and a vertical corridor wall 0.1 m    *)
(* past the east end; no staircase or one centred at 2, 8.75, 11 or 17 m;  *)
(* two apartments, each without an entry door or with one on a corridor    *)
(* wall or on the south front.                                             *)
(***************************************************************************)
CorridorWall(gid, name, start, end) == [Wall(gid, name, start, end) EXCEPT !.thickness = 2]

EastStarts == {162, 163, 280}
StaircaseCentres == {40, 175, 220, 340}

CorridorPlanWalls(west, east_start) ==
    << [Wall("w_south", "South Wall", <<0, 0>>, <<400, 0>>) EXCEPT !.is_external = TRUE] >>
    \o (IF west
        THEN << CorridorWall("c_sw", "Corridor South West", <<0, 105>>, <<160, 105>>),
                CorridorWall("c_nw", "Corridor North West", <<0, 135>>, <<160, 135>>) >>
        ELSE <<>>)
    \o (IF east_start # 0
        THEN << CorridorWall("c_se", "Corridor South East", <<east_start, 105>>, <<400, 105>>),
                CorridorWall("c_ne", "Corridor North East", <<400, 135>>, <<east_start, 135>>) >>
        ELSE <<>>)
    \o << CorridorWall("c_end", "Corridor East", <<402, 105>>, <<402, 135>>) >>

\* A door sits 4 m from the start of a corridor wall and 17 m from the
\* start of the south front.
EntryDoorOn(k, name, host) ==
    Door(<<"door", k>>, name, host, IF host = "w_south" THEN 340 ELSE 80, Plan.door_width)

CorridorStory(west, east_start, centre, host1, host2) ==
    [Story("GF", CorridorPlanWalls(west, east_start)) EXCEPT
        !.staircases = IF centre = 0 THEN <<>>
                       ELSE << Staircase("st1", "ST1", Rect(centre - 30, 160, centre + 30, 220)) >>,
        !.apartments = << Apartment("apt1", "Apt 1", Rect(0, 0, 160, 105), <<>>),
                          Apartment("apt2", "Apt 2", Rect(280, 0, 400, 105), <<>>) >>,
        !.doors = (IF host1 = "" THEN <<>> ELSE << EntryDoorOn(1, "Apt 1 Entry", host1) >>)
                  \o (IF host2 = "" THEN <<>> ELSE << EntryDoorOn(2, "Apt 2 Entry", host2) >>)]

CorridorPlans ==
    {CorridorStory(west, east_start, centre, host1, host2) :
        west \in BOOLEAN, east_start \in EastStarts \cup {0}, centre \in StaircaseCentres \cup {0},
        host1 \in {"", "w_south", "c_sw", "c_ne", "c_end"},
        host2 \in {"", "w_south", "c_nw", "c_se", "c_end"}}

\* The plans whose doors sit on walls the story has.
CorridorInit ==
    /\ \E story \in CorridorPlans :
          /\ \A d \in Range(story.doors) : d.wall_id \in wall_ids(story)
          /\ stories = << story >>
    /\ graph = NoGraph
    /\ log = <<>>
    /\ hash_order = NoHashOrder

ValidatePhase3Corridor ==
    /\ log = <<>>
    /\ log' = << Call("validate_phase3_corridor", <<>>, validate_phase3_corridor(stories), stories) >>
    /\ UNCHANGED <<stories, graph, hash_order>>

CorridorNext == ValidatePhase3Corridor

SpecCorridor == CorridorInit /\ [][CorridorNext]_vars

\* The x-ranges of the corridor walls that are not vertical, and the runs
\* they form: two ranges belong to one run when a chain of ranges leads
\* from one to the other in which each overlaps the next or lies within
\* 0.1 m of it; a run spans from the least start to the greatest end of its
\* ranges.
CorridorRanges(story) ==
    {<< Smaller(w.start[1], w.end[1]), Larger(w.start[1], w.end[1]) >> :
        w \in {v \in Range(CorridorWalls(story)) : v.start[1] # v.end[1]}}

Joined(a, b) == Cm(a[1]) <= Cm(b[2]) + RUN_TOLERANCE /\ Cm(b[1]) <= Cm(a[2]) + RUN_TOLERANCE

RECURSIVE Chained(_, _)
Chained(ranges, group) ==
    LET more == group \cup {r \in ranges : \E g \in group : Joined(r, g)}
    IN  IF more = group THEN group ELSE Chained(ranges, more)

MaximalRuns(story) ==
    {<< SetMin({r[1] : r \in Chained(CorridorRanges(story), {seed})}),
        SetMax({r[2] : r \in Chained(CorridorRanges(story), {seed})}) >> :
        seed \in CorridorRanges(story)}

NoRun == <<>>

\* The westernmost of the runs, NoRun if there is none.
Westernmost(runs) ==
    IF runs = {} THEN NoRun ELSE CHOOSE r \in runs : \A s \in runs : r[1] <= s[1]

\* The run a door's x lies on, the run's ends taken 0.1 m wider.
RunOfDoor(story, door) ==
    Westernmost({r \in MaximalRuns(story) :
        /\ Cm(r[1]) - DOOR_MARGIN_ON_RUN <= Cm(DoorX(HostOf(story, door), door))
        /\ Cm(DoorX(HostOf(story, door), door)) <= Cm(r[2]) + DOOR_MARGIN_ON_RUN})

\* The run that contains the core: the staircase's centroid lies within
\* 1.0 m of it.
RunOfCore(story) ==
    IF story.staircases = <<>> THEN NoRun
    ELSE Westernmost({r \in MaximalRuns(story) :
            LET box == Bounds(story.staircases[1].outline)
            IN  /\ 2 * (Cm(r[1]) - CORE_MARGIN_ON_RUN) <= Cm(box.min_x + box.max_x)
                /\ Cm(box.min_x + box.max_x) <= 2 * (Cm(r[2]) + CORE_MARGIN_ON_RUN)})

\* The door's x lies on no run, or on a run that is not the run of the core.
OffTheCoresRun(story, door) ==
    \/ RunOfDoor(story, door) = NoRun
    \/ RunOfCore(story) # NoRun /\ RunOfDoor(story, door) # RunOfCore(story)

ContinuityErrors(errors, apt, door) ==
    SelectSeq(errors, LAMBDA e :
        /\ e.severity = "error"
        /\ e.message[1] = "E023"
        /\ e.element_id = apt.global_id
        /\ e.message[3] = door.name)

CorridorCall == log # <<>> /\ Last.op = "validate_phase3_corridor"

FlatWalls ==
    << [Wall("w_south", "", <<0, 0>>, <<120, 0>>) EXCEPT !.is_external = TRUE],
       [Wall("w_east", "", <<120, 0>>, <<120, 110>>) EXCEPT !.is_external = TRUE],
       [Wall("w_north", "", <<120, 110>>, <<0, 110>>) EXCEPT !.is_external = TRUE],
       [Wall("w_west", "", <<0, 110>>, <<0, 0>>) EXCEPT !.is_external = TRUE],
       CorridorWall("c_s", "Corridor South West", <<0, 41>>, <<120, 41>>),
       CorridorWall("c_n", "Corridor North West", <<0, 71>>, <<120, 71>>),
       [Wall("p12", "Partition", <<40, 0>>, <<40, 41>>) EXCEPT !.thickness = 2],
       [Wall("p23", "Partition", <<80, 0>>, <<80, 41>>) EXCEPT !.thickness = 2] >>

\* The doors by number: the entries of the first and of the second room,
\* the door between the first two rooms and the door between the last two.
FlatDoor(k) ==
    CASE k = 1 -> Door(<<"door", 1>>, DoorName(1), "c_s", 10, Plan.door_width)
      [] k = 2 -> Door(<<"door", 2>>, DoorName(2), "c_s", 50, Plan.door_width)
      [] k = 3 -> Door(<<"door", 3>>, DoorName(3), "p12", 10, Plan.door_width)
      [] k = 4 -> Door(<<"door", 4>>, DoorName(4), "p23", 10, Plan.door_width)

FlatRooms(first_is_hallway, touching) ==
    << IF first_is_hallway THEN Space("r1", "Flur", "hallway", Rect(0, 0, 39, 40))
       ELSE Space("r1", "Living", "living", Rect(0, 0, 39, 40)),
       Space("r2", "Bedroom", "bedroom", Rect(41, 0, 79, 40)),
       Space("r3", "Bad", "bathroom", Rect(IF touching THEN 79 ELSE 81, 0, 120, 40)) >>

FlatStory(first_is_hallway, touching, owners, door_numbers) ==
    [Story("GF", FlatWalls) EXCEPT
        !.apartments =
            << Apartment("apt1", "Apt 1", Rect(0, 0, 120, 40),
                         SelectSeq(FlatRooms(first_is_hallway, touching),
                                   LAMBDA s : owners[s.global_id] = 1)),
               Apartment("apt2", "Apt 2", Rect(0, 0, 120, 40),
                         SelectSeq(FlatRooms(first_is_hallway, touching),
                                   LAMBDA s : owners[s.global_id] = 2)) >>,
        !.doors = [k \in DOMAIN door_numbers |-> FlatDoor(door_numbers[k])]]

\* The doors of a story: any of the four, in the order of their numbers.
FlatDoorPlans ==
    {SelectSeq(<<1, 2, 3, 4>>, LAMBDA k : k \in chosen) : chosen \in SUBSET {1, 2, 3, 4}}

FlatInit ==
    /\ \E first_is_hallway \in BOOLEAN, touching \in BOOLEAN,
          owners \in [{"r1", "r2", "r3"} -> {1, 2}], door_numbers \in FlatDoorPlans :
          stories = << FlatStory(first_is_hallway, touching, owners, door_numbers) >>
    /\ graph = NoGraph
    /\ log = <<>>
    /\ hash_order = NoHashOrder

ValidateApartmentConnectivity ==
    /\ log = <<>>
    /\ log' = << Call("validate_apartment_connectivity", <<>>,
                      validate_apartment_connectivity(stories), stories) >>
    /\ UNCHANGED <<stories, graph, hash_order>>

FlatNext == ValidateApartmentConnectivity

SpecFlat == FlatInit /\ [][FlatNext]_vars

\* A door edge of the graph joins the two nodes.
DoorJoined(g, a, b) == \E e \in Range(g.edges) : {e.from_node, e.to_node} = {a, b}

\* Where the search of an apartment starts: at its hallways, or without one
\* at its first room that a door joins to a corridor or lobby node.
StartRooms(apt, g) ==
    IF \E s \in Range(apt.spaces) : s.room_type = "hallway"
    THEN {s \in Range(apt.spaces) : s.room_type = "hallway"}
    ELSE {apt.spaces[k] : k \in {k \in DOMAIN apt.spaces :
            \A m \in 1..k :
               (\E nm \in DOMAIN g.nodes :
                   /\ g.nodes[nm].node_type \in {"corridor", "lobby"}
                   /\ DoorJoined(g, apt.spaces[m].name, nm)) <=> m = k}}

\* The rooms of the apartment the search reaches from the rooms it has
\* reached: over a door edge between two rooms of the apartment, or from a
\* room to a room whose boundary overlaps or touches it.
RECURSIVE InternallyReached(_, _, _)
InternallyReached(apt, g, reached) ==
    LET more == {s \in Range(apt.spaces) :
                    \E r \in reached : \/ DoorJoined(g, r.name, s.name)
                                       \/ (r # s /\ _boundaries_overlap(r, s))}
    IN  IF more \subseteq reached THEN reached
        ELSE InternallyReached(apt, g, reached \cup more)

DisconnectedRoomErrors(errors, space) ==
    SelectSeq(errors, LAMBDA e :
        e.severity = "error" /\ e.message[1] = "E049" /\ e.element_id = space.global_id)

FlatCall == log # <<>> /\ Last.op = "validate_apartment_connectivity"
FlatGraph(story) == BuildGraphOf(story, story.name, STEP_DISTANCE)

\* C19: for an apartment whose search has a room to start from,
\* validate_apartment_connectivity returns exactly one E049 error for each
\* room of the apartment that the search does not reach, and none for a
\* room it reaches; the search follows door edges only between rooms of the
\* apartment, so a room joined to the start only by way of a node outside
\* the apartment is not reached.
OneErrorPerDisconnectedRoom ==
    FlatCall =>
        \A story \in Range(Last.before) : \A g \in {FlatGraph(story)} :
           \A apt \in Range(story.apartments) :
              StartRooms(apt, g) # {} =>
                 \A space \in Range(apt.spaces) :
                    Len(DisconnectedRoomErrors(Last.returned, space))
                       = IF space \in InternallyReached(apt, g, StartRooms(apt, g))
                         THEN 0 ELSE 1

\* C19 witness: a call on a story with an apartment that has a hallway and
\* gets one E049 error for a room that doors join to the hallway by way of
\* a room of the other apartment, and an apartment without a hallway whose
\* search starts at the room with the corridor door.
DisconnectedBehindForeignRoom ==
    /\ FlatCall
    /\ \E g \in {FlatGraph(Last.before[1])} :
          /\ \E space \in Range(Last.before[1].apartments[1].spaces) :
                \E start \in StartRooms(Last.before[1].apartments[1], g) :
                   \E foreign \in Range(Last.before[1].apartments[2].spaces) :
                      /\ start.room_type = "hallway"
                      /\ DoorJoined(g, start.name, foreign.name)
                      /\ DoorJoined(g, foreign.name, space.name)
                      /\ Len(DisconnectedRoomErrors(Last.returned, space)) = 1
          /\ \E start \in StartRooms(Last.before[1].apartments[2], g) :
                /\ start.room_type # "hallway"
                /\ DoorJoined(g, start.name, "Corridor")

(***************************************************************************)
(* validators/reachability.py: the walk-through rooms.                     *)
(***************************************************************************)
_HABITABLE_TYPES == {"living", "bedroom", "kitchen", "office"}

\* The inner for loop of _reachable_avoiding_types over one node's
\* neighbors: a new neighbor is marked visited, and queued when the graph
\* has a node of its name whose type is not avoided.
RECURSIVE AvoidNeighbors(_, _, _, _, _)
AvoidNeighbors(g, nbrs, k, avoid_types, st) ==
    IF k > Len(nbrs) THEN st
    ELSE LET neighbor == nbrs[k][1]
         IN  AvoidNeighbors(g, nbrs, k + 1, avoid_types,
                IF neighbor \in st.visited THEN st
                ELSE [visited |-> st.visited \cup {neighbor},
                      queue |-> IF /\ neighbor \in DOMAIN g.nodes
                                   /\ g.nodes[neighbor].node_type \notin avoid_types
                                THEN Append(st.queue, neighbor)
                                ELSE st.queue])

RECURSIVE AvoidLoop(_, _, _)
AvoidLoop(g, avoid_types, st) ==
    IF st.queue = <<>> THEN st.visited
    ELSE AvoidLoop(g, avoid_types,
            AvoidNeighbors(g, neighbors(g, Head(st.queue)), 1, avoid_types,
                           [st EXCEPT !.queue = Tail(@)]))

_reachable_avoiding_types(g, start, avoid_types) ==
    AvoidLoop(g, avoid_types, [visited |-> {start}, queue |-> << start >>])

\* The entry point: the first node of the dict that is a corridor or a
\* lobby, else Exterior if the graph has it, else None (an empty sequence).
EntryNode(g) ==
    LET common == SelectSeq(g.order, LAMBDA nm : g.nodes[nm].node_type \in {"corridor", "lobby"})
    IN  IF common # <<>> THEN << common[1] >>
        ELSE IF "Exterior" \in DOMAIN g.nodes THEN << "Exterior" >>
        ELSE <<>>

\* The body of the loop over the habitable rooms: the set of types to avoid
\* is the habitable types less the room's name.
WalkThroughCheck(g, entry_node, room_name) ==
    IF room_name = entry_node THEN <<>>
    ELSE IF room_name \notin _reachable_avoiding_types(g, entry_node,
                                                       _HABITABLE_TYPES \ {room_name})
    THEN << ValidationError("warning", "Space", "",
               <<"W080", room_name, g.nodes[room_name].node_type, g.storey>>) >>
    ELSE <<>>

\* _validate_walk_through_rooms: the habitable rooms come in the order of
\* the process's set iteration.
_validate_walk_through_rooms(g, order) ==
    IF EntryNode(g) = <<>> THEN <<>>
    ELSE LET habitable == {nm \in DOMAIN g.nodes : g.nodes[nm].node_type \in _HABITABLE_TYPES}
             rooms == IterationOrder(habitable, order)
         IN  Flatten([k \in DOMAIN rooms |-> WalkThroughCheck(g, EntryNode(g)[1], rooms[k])])

(***************************************************************************)
(* Graphs for the walk-through check: a hallway, a living room and a       *)
(* bedroom, with or without a second bedroom that carries the name         *)
(* "bedroom"; before them in the dict no common node, Exterior, a          *)
(* corridor, or two of Exterior, corridor and lobby; any of eight doors.   *)
(***************************************************************************)
WalkNodeType(name) ==
    CASE name = "Corridor" -> "corridor"
      [] name = "Lobby" -> "lobby"
      [] name = "Exterior" -> "exterior"
      [] name = "Flur" -> "hallway"
      [] name = "Living" -> "living"
      [] name = "Bedroom" -> "bedroom"
      [] name = "bedroom" -> "bedroom"

WalkEntries == {<<>>, <<"Exterior">>, <<"Corridor">>, <<"Exterior", "Corridor">>,
                <<"Lobby", "Corridor">>, <<"Corridor", "Lobby">>}
WalkRooms == {<<"Flur", "Living", "Bedroom">>, <<"Flur", "Living", "Bedroom", "bedroom">>}
WalkDoors == << <<"Corridor", "Flur">>, <<"Lobby", "Living">>, <<"Exterior", "Living">>,
                <<"Flur", "Living">>, <<"Flur", "Bedroom">>, <<"Living", "Bedroom">>,
                <<"Bedroom", "bedroom">>, <<"Corridor", "Lobby">> >>

WalkGraph(names, chosen) ==
    LET doors == SelectSeq(WalkDoors, LAMBDA d : d \in chosen /\ d[1] \in Range(names)
                                                  /\ d[2] \in Range(names))
    IN  [storey |-> "GF",
         nodes |-> [nm \in Range(names) |-> GraphNode(nm, WalkNodeType(nm), 0, "GF")],
         edges |-> [k \in DOMAIN doors |-> GraphEdge("door", Plan.door_width,
                                                     doors[k][1], doors[k][2])],
         built |-> FALSE,
         order |-> names]

WalkHashOrders ==
    {<<"Living", "Bedroom", "bedroom">>, <<"Living", "bedroom", "Bedroom">>,
     <<"Bedroom", "Living", "bedroom">>, <<"Bedroom", "bedroom", "Living">>,
     <<"bedroom", "Living", "Bedroom">>, <<"bedroom", "Bedroom", "Living">>}

WalkInit ==
    /\ stories = <<>>
    /\ \E entries \in WalkEntries, rooms \in WalkRooms, chosen \in SUBSET Range(WalkDoors) :
          graph = WalkGraph(entries \o rooms, chosen)
    /\ log = <<>>
    /\ hash_order \in WalkHashOrders

ValidateWalkThroughRooms ==
    /\ log = <<>>
    /\ log' = << Answer("_validate_walk_through_rooms", <<>>,
                        _validate_walk_through_rooms(graph, hash_order)) >>
    /\ UNCHANGED <<stories, graph, hash_order>>

WalkNext == ValidateWalkThroughRooms

SpecWalk == WalkInit /\ [][WalkNext]_vars

IsHabitable(g, nm) == g.nodes[nm].node_type \in _HABITABLE_TYPES

\* The nodes a walk from the entry gets to without entering a habitable
\* room: the entry, and every node that is not habitable and has a door to
\* such a node.
RECURSIVE FreeOfHabitable(_, _)
FreeOfHabitable(g, reached) ==
    LET more == {nm \in DOMAIN g.nodes :
                    ~IsHabitable(g, nm) /\ \E r \in reached : DoorJoined(g, r, nm)}
    IN  IF more \subseteq reached THEN reached ELSE FreeOfHabitable(g, reached \cup more)

\* There is a path from the entry to the room whose intermediate nodes are
\* all non-habitable.
ReachedPastNoHabitableRoom(g, entry, room) ==
    \E r \in FreeOfHabitable(g, {entry}) : DoorJoined(g, r, room)

WalkWarnings(errors, room) ==
    SelectSeq(errors, LAMBDA e :
        e.severity = "warning" /\ e.message[1] = "W080" /\ e.message[2] = room)

\* C20: in a graph with an entry node, a habitable room gets a W080 warning
\* if and only if no path leads from the entry node to it whose
\* intermediate nodes are all non-habitable.
WalkThroughWarnedIffOnlyPastHabitable ==
    (Asked("_validate_walk_through_rooms") /\ EntryNode(graph) # <<>>) =>
        \A room \in {nm \in DOMAIN graph.nodes : IsHabitable(graph, nm)} :
           (WalkWarnings(Last.returned, room) # <<>>)
              <=> ~ReachedPastNoHabitableRoom(graph, EntryNode(graph)[1], room)
(***************************************************************************)
(* validators/reachability.py: the staircase and the apartments seen from  *)
(* the access points of the storey.                                        *)
(***************************************************************************)
\* The access points: Exterior with its neighbors when the graph has an
\* Exterior node, and every corridor or lobby node.
AccessNodes(g) ==
    (IF "Exterior" \in DOMAIN g.nodes
     THEN {"Exterior"} \cup {neighbors(g, "Exterior")[k][1] :
                                k \in DOMAIN neighbors(g, "Exterior")}
     ELSE {})
    \cup {nm \in DOMAIN g.nodes : g.nodes[nm].node_type \in {"corridor", "lobby"}}

\* The access points without the entrance side: corridors and lobbies only.
CorridorAccessNodes(g) ==
    {nm \in DOMAIN g.nodes : g.nodes[nm].node_type \in {"corridor", "lobby"}}

StaircaseError(g, stair) ==
    ValidationError("error", "Staircase", "", <<"E081", stair, g.storey>>)

\* The loop over the staircase nodes, in the order of the dict.
StaircaseLoop(g, access_nodes) ==
    LET staircase_nodes == SelectSeq(g.order, LAMBDA nm : g.nodes[nm].node_type = "staircase")
    IN  IF access_nodes = {} THEN <<>>
        ELSE Flatten([k \in DOMAIN staircase_nodes |->
                IF \E access \in access_nodes : has_path(g, access, staircase_nodes[k])
                THEN <<>>
                ELSE << StaircaseError(g, staircase_nodes[k]) >>])

\* A variant of the check that starts from corridors and lobbies only.
EntranceToStaircaseFromCorridors(g) == StaircaseLoop(g, CorridorAccessNodes(g))

_validate_entrance_to_staircase(g) == StaircaseLoop(g, AccessNodes(g))

ApartmentError(apt, storey_name) ==
    ValidationError("error", "Apartment", apt.global_id,
                    <<"E082", apt.name, storey_name,
                      {apt.spaces[k].name : k \in DOMAIN apt.spaces}>>)

\* The loop over the apartments: Missing tells, from the names of the
\* apartment's rooms and the set reached from the corridor, whether the
\* apartment gets its error.
ApartmentLoop(story, storey_name, g, Missing(_, _)) ==
    LET corridor_nodes == SelectSeq(g.order, LAMBDA nm : g.nodes[nm].node_type = "corridor")
    IN  IF corridor_nodes = <<>> THEN <<>>
        ELSE Flatten([k \in DOMAIN story.apartments |->
                IF Missing({story.apartments[k].spaces[m].name :
                               m \in DOMAIN story.apartments[k].spaces},
                           reachable_from(g, corridor_nodes[1]))
                THEN << ApartmentError(story.apartments[k], storey_name) >>
                ELSE <<>>])

\* A variant of the check that wants every room of the apartment reached.
CorridorToEveryRoom(story, storey_name, g) ==
    ApartmentLoop(story, storey_name, g,
                  LAMBDA apt_space_names, reachable : ~(apt_space_names \subseteq reachable))

_validate_corridor_to_apartments(story, storey_name, g) ==
    ApartmentLoop(story, storey_name, g,
                  LAMBDA apt_space_names, reachable : apt_space_names \cap reachable = {})

(***************************************************************************)
(* Graphs as build_connectivity_graph leaves them: the rooms of the        *)
(* apartments first, then a room of type corridor, the Corridor and Lobby  *)
(* zones and the staircases where the story has them, and Exterior last;   *)
(* any of nine doors between nodes that exist.  The two rooms are shared   *)
(* out between two apartments.                                             *)
(***************************************************************************)
ReachNodeType(name) ==
    CASE name = "Flur" -> "hallway"
      [] name = "Living" -> "living"
      [] name = "Gang" -> "corridor"
      [] name = "Corridor" -> "corridor"
      [] name = "Lobby" -> "lobby"
      [] name = "Staircase" -> "staircase"
      [] name = "Stair B" -> "staircase"
      [] name = "Exterior" -> "exterior"

ReachNames == <<"Flur", "Living", "Gang", "Corridor", "Lobby", "Staircase", "Stair B", "Exterior">>
OptionalNodes == {"Gang", "Corridor", "Lobby", "Stair B"}
ReachDoors == << <<"Exterior", "Living">>, <<"Living", "Staircase">>, <<"Flur", "Living">>,
                 <<"Corridor", "Flur">>, <<"Corridor", "Staircase">>, <<"Gang", "Stair B">>,
                 <<"Lobby", "Stair B">>, <<"Flur", "Stair B">>, <<"Gang", "Living">> >>

ReachGraph(left_out, chosen) ==
    LET names == SelectSeq(ReachNames, LAMBDA nm : nm \notin left_out)
        doors == SelectSeq(ReachDoors, LAMBDA d : d \in chosen /\ d[1] \in Range(names)
                                                   /\ d[2] \in Range(names))
    IN  [storey |-> "GF",
         nodes |-> [nm \in Range(names) |-> GraphNode(nm, ReachNodeType(nm), 0, "GF")],
         edges |-> [k \in DOMAIN doors |-> GraphEdge("door", Plan.door_width,
                                                     doors[k][1], doors[k][2])],
         built |-> TRUE,
         order |-> names]

ReachRooms == << Space("r1", "Flur", "hallway", Rect(0, 0, 39, 40)),
                 Space("r2", "Living", "living", Rect(41, 0, 79, 40)) >>

ReachStory(owners) ==
    [Story("GF", <<>>) EXCEPT
        !.apartments =
            << Apartment("apt1", "Apt 1", Rect(0, 0, 120, 40),
                         SelectSeq(ReachRooms, LAMBDA s : owners[s.global_id] = 1)),
               Apartment("apt2", "Apt 2", Rect(0, 0, 120, 40),
                         SelectSeq(ReachRooms, LAMBDA s : owners[s.global_id] = 2)) >>]

ReachInit ==
    /\ \E owners \in [{"r1", "r2"} -> {1, 2}] : stories = << ReachStory(owners) >>
    /\ \E left_out \in SUBSET OptionalNodes, chosen \in SUBSET Range(ReachDoors) :
          graph = ReachGraph(left_out, chosen)
    /\ log = <<>>
    /\ hash_order = NoHashOrder

ValidateEntranceToStaircase ==
    /\ log = <<>>
    /\ log' = << Answer("_validate_entrance_to_staircase", <<>>,
                        _validate_entrance_to_staircase(graph)) >>
    /\ UNCHANGED <<stories, graph, hash_order>>

ValidateCorridorToApartments ==
    /\ log = <<>>
    /\ log' = << Answer("_validate_corridor_to_apartments", <<>>,
                        _validate_corridor_to_apartments(stories[1], stories[1].name, graph)) >>
    /\ UNCHANGED <<stories, graph, hash_order>>

ReachNext == ValidateEntranceToStaircase \/ ValidateCorridorToApartments

SpecReach == ReachInit /\ [][ReachNext]_vars

\* The nodes that doors join to the nodes reached, one door after another.
RECURSIVE Linked(_, _)
Linked(g, reached) ==
    LET more == {nm \in DOMAIN g.nodes : \E r \in reached : DoorJoined(g, r, nm)}
    IN  IF more \subseteq reached THEN reached ELSE Linked(g, reached \cup more)

\* Exterior, the nodes a door joins to Exterior, and the corridors and
\* lobbies.
AccessPoints(g) ==
    {nm \in DOMAIN g.nodes :
        \/ nm = "Exterior"
        \/ DoorJoined(g, "Exterior", nm)
        \/ g.nodes[nm].node_type \in {"corridor", "lobby"}}

StaircaseErrorsAbout(errors, stair) ==
    SelectSeq(errors, LAMBDA e :
        e.severity = "error" /\ e.message[1] = "E081" /\ e.message[2] = stair)

StairsOf(g) == {nm \in DOMAIN g.nodes : g.nodes[nm].node_type = "staircase"}

\* C21: the entrance-to-staircase check returns exactly one E081 error for
\* each staircase node that no path joins to any access point (Exterior,
\* the neighbors of Exterior, the corridor and lobby nodes), none for a
\* staircase that a path joins to an access point, and nothing else.
OneErrorPerStaircaseOffTheAccessPoints ==
    Asked("_validate_entrance_to_staircase") =>
        /\ \A stair \in StairsOf(graph) :
              Len(StaircaseErrorsAbout(Last.returned, stair))
                 = IF stair \in Linked(graph, AccessPoints(graph)) THEN 0 ELSE 1
        /\ \A k \in DOMAIN Last.returned : Last.returned[k].message[2] \in StairsOf(graph)

\* C21 witness: a graph with a corridor and two staircases, one reached
\* only by way of a room that has a door to Exterior and given no error,
\* the other with a door to a room and given its one error.
StaircaseBehindCutOffRoomReported ==
    /\ Asked("_validate_entrance_to_staircase")
    /\ "Corridor" \in DOMAIN graph.nodes
    /\ DoorJoined(graph, "Exterior", "Living") /\ DoorJoined(graph, "Living", "Staircase")
    /\ ~DoorJoined(graph, "Corridor", "Staircase")
    /\ "Stair B" \in DOMAIN graph.nodes /\ DoorJoined(graph, "Flur", "Stair B")
    /\ Len(StaircaseErrorsAbout(Last.returned, "Staircase")) = 0
    /\ Len(StaircaseErrorsAbout(Last.returned, "Stair B")) = 1
    /\ Len(Last.returned) = 1
ApartmentErrorsAbout(errors, apt) ==
    SelectSeq(errors, LAMBDA e :
        e.severity = "error" /\ e.message[1] = "E082" /\ e.element_id = apt.global_id)

\* The corridor node of the check: the first node of the dict whose type
\* is corridor.
CorridorNodeOf(g) ==
    g.order[CHOOSE k \in DOMAIN g.order :
               /\ g.nodes[g.order[k]].node_type = "corridor"
               /\ \A m \in 1..(k - 1) : g.nodes[g.order[m]].node_type # "corridor"]

HasCorridorNode(g) == \E nm \in DOMAIN g.nodes : g.nodes[nm].node_type = "corridor"

\* C22: on a graph with a corridor node, the corridor-to-apartment check
\* returns an E082 error for an apartment of the story if and only if none
\* of the apartment's room names is among the nodes reached from the
\* corridor node; one reached room is enough for no error.
ApartmentErrorIffNoRoomReached ==
    (Asked("_validate_corridor_to_apartments") /\ HasCorridorNode(graph)) =>
        \A apt \in Range(stories[1].apartments) :
           Len(ApartmentErrorsAbout(Last.returned, apt))
              = IF \E s \in Range(apt.spaces) :
                      s.name \in Linked(graph, {CorridorNodeOf(graph)})
                THEN 0 ELSE 1

\* C22 witness: one apartment holds both rooms, the corridor reaches the
\* hallway but not the living room, and the apartment gets no error; the
\* other apartment has no room and gets one.
OneReachedRoomSuppressesError ==
    /\ Asked("_validate_corridor_to_apartments")
    /\ HasCorridorNode(graph)
    /\ Len(stories[1].apartments[1].spaces) = 2
    /\ "Flur" \in Linked(graph, {CorridorNodeOf(graph)})
    /\ "Living" \notin Linked(graph, {CorridorNodeOf(graph)})
    /\ Len(ApartmentErrorsAbout(Last.returned, stories[1].apartments[1])) = 0
    /\ Len(ApartmentErrorsAbout(Last.returned, stories[1].apartments[2])) = 1
(***************************************************************************)
(* The unassigned floor area of validate_phase4_facade: a footprint of     *)
(* 2.5 m x 1.5 m inside four external walls, sampled in five columns of    *)
(* three cells, with one or two apartments whose boxes lie on the grid     *)
(* lines.                                                                  *)
(***************************************************************************)
FacadeWidth == 50
FacadeDepth == 30

FacadeWalls ==
    << [Wall("w_south", "", <<0, 0>>, <<FacadeWidth, 0>>) EXCEPT !.is_external = TRUE],
       [Wall("w_east", "", <<FacadeWidth, 0>>, <<FacadeWidth, FacadeDepth>>) EXCEPT !.is_external = TRUE],
       [Wall("w_north", "", <<FacadeWidth, FacadeDepth>>, <<0, FacadeDepth>>) EXCEPT !.is_external = TRUE],
       [Wall("w_west", "", <<0, FacadeDepth>>, <<0, 0>>) EXCEPT !.is_external = TRUE] >>

FacadeBoxes ==
    {Rect(x0 * GRID_STEP, y0 * GRID_STEP, x1 * GRID_STEP, y1 * GRID_STEP) :
        x0 \in 0..(FacadeWidth \div GRID_STEP - 1), x1 \in 1..(FacadeWidth \div GRID_STEP),
        y0 \in 0..(FacadeDepth \div GRID_STEP - 1), y1 \in 1..(FacadeDepth \div GRID_STEP)}

FacadeStory(boxes) ==
    [Story("GF", FacadeWalls) EXCEPT
        !.apartments = [k \in DOMAIN boxes |->
                           Apartment(IF k = 1 THEN "apt1" ELSE "apt2",
                                     IF k = 1 THEN "Apt 1" ELSE "Apt 2", boxes[k], <<>>)]]

FacadeInit ==
    /\ \E a \in FacadeBoxes, b \in FacadeBoxes \cup {<<>>} :
          /\ a[1][1] < a[2][1] /\ a[1][2] < a[3][2]
          /\ b # <<>> => (b[1][1] < b[2][1] /\ b[1][2] < b[3][2])
          /\ stories = << FacadeStory(IF b = <<>> THEN <<a>> ELSE <<a, b>>) >>
    /\ graph = NoGraph
    /\ log = <<>>
    /\ hash_order = NoHashOrder

ValidatePhase4Facade ==
    /\ log = <<>>
    /\ log' = << Call("validate_phase4_facade", <<>>, validate_phase4_facade(stories), stories) >>
    /\ UNCHANGED <<stories, graph, hash_order>>

FacadeNext == ValidatePhase4Facade

SpecFacade == FacadeInit /\ [][FacadeNext]_vars

\* The sample points of the story that lie in no apartment's box.
UncoveredCells(story) ==
    {p \in Range(SamplePoints(BuildingWidth(story), BuildingDepth(story))) :
        \A a \in Range(story.apartments) :
           \/ p[1] < Bounds(a.boundary).min_x - GRID_MARGIN
           \/ p[1] > Bounds(a.boundary).max_x + GRID_MARGIN
           \/ p[2] < Bounds(a.boundary).min_y - GRID_MARGIN
           \/ p[2] > Bounds(a.boundary).max_y + GRID_MARGIN}

\* Two cells are side by side: one grid step apart in x or in y, not both.
SideBySide(p, q) == Abs(p[1] - q[1]) + Abs(p[2] - q[2]) = GRID_STEP

\* The cluster of a cell: the uncovered cells a chain of side-by-side
\* uncovered cells joins to it.
RECURSIVE ClusterFrom(_, _)
ClusterFrom(cells, reached) ==
    LET more == {p \in cells : \E r \in reached : SideBySide(p, r)}
    IN  IF more \subseteq reached THEN reached ELSE ClusterFrom(cells, reached \cup more)

Clusters(cells) == {ClusterFrom(cells, {p}) : p \in cells}

UnassignedAreaErrors(errors) ==
    SelectSeq(errors, LAMBDA e : e.severity = "error" /\ e.message[1] = "E032")

FacadeCall == log # <<>> /\ Last.op = "validate_phase4_facade"

BigClusters(story) ==
    {c \in Clusters(UncoveredCells(story)) :
        Cardinality(c) * GRID_STEP * GRID_STEP >= MIN_REGION_AREA}

\* C23: the uncovered sample points fall into maximal clusters of cells
\* joined side by side; validate_phase4_facade returns exactly one E032
\* error for each cluster whose cells add up to 1.0 m2 or more, naming its
\* cell count and bounds, and none for a smaller cluster.
OneErrorPerLargeUncoveredCluster ==
    FacadeCall =>
        \A story \in Range(Last.before) :
           /\ Len(UnassignedAreaErrors(Last.returned)) = Cardinality(BigClusters(story))
           /\ \A c \in BigClusters(story) :
                 \E k \in DOMAIN UnassignedAreaErrors(Last.returned) :
                    /\ UnassignedAreaErrors(Last.returned)[k].message[3] = Cardinality(c)
                    /\ UnassignedAreaErrors(Last.returned)[k].message[4]
                          = Box(SetMin({p[1] : p \in c}), SetMin({p[2] : p \in c}),
                                SetMax({p[1] : p \in c}), SetMax({p[2] : p \in c}))

\* C23 witness: the uncovered cells form a cluster of four or more cells
\* and a smaller cluster that touches it only corner to corner; one E032
\* error is returned.
LargeClusterReportedSmallOneNot ==
    /\ FacadeCall
    /\ \E big, small \in Clusters(UncoveredCells(Last.before[1])) :
          /\ Cardinality(big) >= 4
          /\ Cardinality(small) < 4
          /\ \E p \in big, q \in small :
                Abs(p[1] - q[1]) = GRID_STEP /\ Abs(p[2] - q[2]) = GRID_STEP
    /\ Len(UnassignedAreaErrors(Last.returned)) = 1
(***************************************************************************)
(* models/geometry.py: Polygon2D.area in the arithmetic of Python floats.  *)
(* A float is a binary64 number: 53 significant bits, every product, sum   *)
(* and difference rounded to the nearest such number, ties to even.        *)
(* Magnitudes are kept as natural numbers written in limbs of 12 bits,     *)
(* least significant first (<<>> is zero), that count units of 2^-120.     *)
(***************************************************************************)
LIMB == 4096
LIMB_BITS == 12
FRACTION_LIMBS == 10          \* a unit is 2^-(12 * 10)
MANTISSA_BITS == 53

RECURSIVE Pow2(_)
Pow2(n) == IF n = 0 THEN 1 ELSE 2 * Pow2(n - 1)

RECURSIVE BNorm(_)
BNorm(a) == IF a = <<>> THEN <<>>
            ELSE IF a[Len(a)] = 0 THEN BNorm(SubSeq(a, 1, Len(a) - 1)) ELSE a

Limb(a, i) == IF i <= Len(a) THEN a[i] ELSE 0

RECURSIVE BAddFrom(_, _, _, _)
BAddFrom(a, b, i, carry) ==
    IF i > Len(a) /\ i > Len(b) THEN (IF carry = 0 THEN <<>> ELSE <<carry>>)
    ELSE LET s == Limb(a, i) + Limb(b, i) + carry
         IN  <<s % LIMB>> \o BAddFrom(a, b, i + 1, s \div LIMB)

BAdd(a, b) == BAddFrom(a, b, 1, 0)

\* a - b for a >= b
RECURSIVE BSubFrom(_, _, _, _)
BSubFrom(a, b, i, borrow) ==
    IF i > Len(a) THEN <<>>
    ELSE LET d == Limb(a, i) - Limb(b, i) - borrow
         IN  <<d % LIMB>> \o BSubFrom(a, b, i + 1, IF d < 0 THEN 1 ELSE 0)

BSub(a, b) == BNorm(BSubFrom(a, b, 1, 0))

\* a < b, both without leading zero limbs
BLess(a, b) ==
    \/ Len(a) < Len(b)
    \/ /\ Len(a) = Len(b)
       /\ \E i \in DOMAIN a : a[i] < b[i] /\ \A j \in (i + 1)..Len(a) : a[j] = b[j]

RECURSIVE BMulSmallFrom(_, _, _, _)
BMulSmallFrom(a, k, i, carry) ==
    IF i > Len(a) THEN (IF carry = 0 THEN <<>> ELSE <<carry>>)
    ELSE LET p == a[i] * k + carry
         IN  <<p % LIMB>> \o BMulSmallFrom(a, k, i + 1, p \div LIMB)

\* a * k for 0 <= k < 4096
BMulSmall(a, k) == BNorm(BMulSmallFrom(a, k, 1, 0))

ZeroLimbs(n) == [i \in 1..n |-> 0]

RECURSIVE BMulFrom(_, _, _)
BMulFrom(a, b, i) ==
    IF i > Len(a) THEN <<>>
    ELSE BAdd(IF BMulSmall(b, a[i]) = <<>> THEN <<>>
              ELSE ZeroLimbs(i - 1) \o BMulSmall(b, a[i]),
              BMulFrom(a, b, i + 1))

BMul(a, b) == BNorm(BMulFrom(a, b, 1))

\* a * 2^s
BShl(a, s) ==
    IF a = <<>> THEN <<>>
    ELSE ZeroLimbs(s \div LIMB_BITS) \o BMulSmall(a, Pow2(s % LIMB_BITS))

\* a \div 2^r for 0 <= r < 12
BShrSmall(a, r) ==
    BNorm([i \in DOMAIN a |->
              a[i] \div Pow2(r) + (Limb(a, i + 1) % Pow2(r)) * Pow2(LIMB_BITS - r)])

RECURSIVE SmallBitLen(_)
SmallBitLen(n) == IF n = 0 THEN 0 ELSE 1 + SmallBitLen(n \div 2)

BitLen(a) == IF a = <<>> THEN 0 ELSE (Len(a) - 1) * LIMB_BITS + SmallBitLen(a[Len(a)])

\* The nearest number of 53 significant bits, ties to the even one.
RoundToDouble(a) ==
    IF BitLen(a) <= MANTISSA_BITS THEN a
    ELSE LET s == BitLen(a) - MANTISSA_BITS
             whole == s \div LIMB_BITS
             r == s % LIMB_BITS
             high == SubSeq(a, whole + 1, Len(a))
             q == BShrSmall(high, r)
             rem == BNorm(SubSeq(a, 1, whole) \o <<high[1] % Pow2(r)>>)
             half == BShl(<<1>>, s - 1)
             up == BLess(half, rem) \/ (rem = half /\ Limb(q, 1) % 2 = 1)
         IN  BShl(IF up THEN BAdd(q, <<1>>) ELSE q, s)

\* A float read from a decimal: mantissa times 2^exponent.
Double(mantissa, exponent) == [m |-> mantissa, e |-> exponent]

\* float(ticks * 0.05 written as a decimal): the binary64 number nearest
\* to the decimal.
DoubleOf(ticks) ==
    CASE ticks = 2 -> Double(<<2458, 2457, 2457, 2457, 25>>, -56)    \* 0.1
      [] ticks = 3 -> Double(<<819, 819, 819, 819, 19>>, -55)    \* 0.15
      [] ticks = 6 -> Double(<<819, 819, 819, 819, 19>>, -54)    \* 0.3
      [] ticks = 7 -> Double(<<1638, 1638, 1638, 1638, 22>>, -54)    \* 0.35
      [] ticks = 8 -> Double(<<2458, 2457, 2457, 2457, 25>>, -54)    \* 0.4
      [] ticks = 0 -> Double(<<>>, 0)

Signed(neg, mag) == [neg |-> neg /\ mag # <<>>, mag |-> mag]

\* x * y of two floats
FloatMul(x, y) ==
    Signed(FALSE, RoundToDouble(BShl(BMul(x.m, y.m),
                                     x.e + y.e + FRACTION_LIMBS * LIMB_BITS)))

\* a + b of two floats
FloatAdd(a, b) ==
    IF a.neg = b.neg THEN Signed(a.neg, RoundToDouble(BAdd(a.mag, b.mag)))
    ELSE IF BLess(a.mag, b.mag) THEN Signed(b.neg, RoundToDouble(BSub(b.mag, a.mag)))
    ELSE Signed(a.neg, RoundToDouble(BSub(a.mag, b.mag)))

\* a - b of two floats
FloatSub(a, b) == FloatAdd(a, Signed(~b.neg, b.mag))

\* The loop of Polygon2D.area from index i on.
RECURSIVE ShoelaceFloat(_, _, _)
ShoelaceFloat(vertices, i, area) ==
    IF i > Len(vertices) THEN area
    ELSE LET j == (i % Len(vertices)) + 1
             plus == FloatAdd(area, FloatMul(DoubleOf(vertices[i][1]), DoubleOf(vertices[j][2])))
         IN  ShoelaceFloat(vertices, i + 1,
                FloatSub(plus, FloatMul(DoubleOf(vertices[j][1]), DoubleOf(vertices[i][2]))))

\* Polygon2D.area: abs(area) / 2.0, in units of 2^-120 m2.
Polygon2DArea(vertices) ==
    BShrSmall(ShoelaceFloat(vertices, 1, Signed(FALSE, <<>>)).mag, 1)

(***************************************************************************)
(* Rectangles with corners on the 5 cm grid, their area asked.             *)
(***************************************************************************)
AreaTicks == {0, 2, 3, 6, 7, 8}

AreaPolygons ==
    {Rect(x0, y0, x1, y1) : x0 \in AreaTicks, y0 \in AreaTicks,
                            x1 \in AreaTicks, y1 \in AreaTicks}

AreaInit ==
    /\ \E outline \in AreaPolygons :
          /\ outline[1][1] < outline[3][1] /\ outline[1][2] < outline[3][2]
          /\ stories = << [Story("GF", <<>>) EXCEPT !.slabs = << Slab("slab", outline, TRUE) >>] >>
    /\ graph = NoGraph
    /\ log = <<>>
    /\ hash_order = NoHashOrder

AskArea ==
    /\ log = <<>>
    /\ log' = << Answer("Polygon2D.area", stories[1].slabs[1].outline,
                        Polygon2DArea(stories[1].slabs[1].outline)) >>
    /\ UNCHANGED <<stories, graph, hash_order>>

AreaNext == AskArea

SpecArea == AreaInit /\ [][AreaNext]_vars

Reversal(vertices) == [i \in DOMAIN vertices |-> vertices[Len(vertices) + 1 - i]]
Rotation(vertices, k) ==
    [i \in DOMAIN vertices |-> vertices[((i + k - 1) % Len(vertices)) + 1]]

\* C24: Polygon2D.area returns the same value for a vertex list, for its
\* reversal and for every cyclic rotation of it.
AreaSameUnderReversalAndRotation ==
    Asked("Polygon2D.area") =>
        /\ Polygon2DArea(Reversal(Last.arg)) = Last.returned
        /\ \A k \in 1..(Len(Last.arg) - 1) :
              Polygon2DArea(Rotation(Last.arg, k)) = Last.returned
(***************************************************************************)
(* _find_zone_at_point on the zones of a story: a living room, a bathroom  *)
(* inside it, a hallway that overlaps both, a staircase of the bathroom's  *)
(* area across them and the corridor along their north side; any of the    *)
(* five may be missing.  The point probed is any point of a grid that      *)
(* reaches past the zones.                                                 *)
(***************************************************************************)
ZoneRooms == << Space("r1", "Living", "living", Rect(0, 0, 40, 40)),
                Space("r2", "Bad", "bathroom", Rect(20, 10, 40, 30)),
                Space("r3", "Flur", "hallway", Rect(30, 0, 70, 40)) >>

ZoneStory(rooms, with_staircase, with_corridor) ==
    [Story("GF", IF with_corridor
                 THEN << CorridorWall("c_s", "Corridor South West", <<0, 25>>, <<80, 25>>),
                         CorridorWall("c_n", "Corridor North West", <<0, 55>>, <<80, 55>>) >>
                 ELSE <<>>) EXCEPT
        !.spaces = SelectSeq(ZoneRooms, LAMBDA s : s.global_id \in rooms),
        !.staircases = IF with_staircase
                       THEN << Staircase("st1", "Staircase", Rect(25, 20, 45, 40)) >>
                       ELSE <<>>]

ProbeXs == {-4, -2, 10, 20, 22, 27, 35, 40, 42, 47, 72, 85}
ProbeYs == {-2, 5, 15, 22, 28, 35, 40, 42, 57, 60}

ZoneInit ==
    /\ \E rooms \in SUBSET {"r1", "r2", "r3"}, with_staircase \in BOOLEAN,
          with_corridor \in BOOLEAN :
          stories = << ZoneStory(rooms, with_staircase, with_corridor) >>
    /\ graph = NoGraph
    /\ log = <<>>
    /\ hash_order = NoHashOrder

FindZoneAtPoint(px, py, prefer_common) ==
    /\ log = <<>>
    /\ log' = << Answer("_find_zone_at_point", <<px, py, prefer_common>>,
                        _find_zone_at_point(px, py, CollectZones(stories[1]),
                                            ZONE_TOLERANCE, prefer_common)) >>
    /\ UNCHANGED <<stories, graph, hash_order>>

ZoneNext ==
    \E px \in ProbeXs, py \in ProbeYs, prefer_common \in BOOLEAN :
       FindZoneAtPoint(px, py, prefer_common)

SpecZone == ZoneInit /\ [][ZoneNext]_vars

\* The candidates for a point, as indices into the list of zones: the
\* zones that contain it, or without any the zones within the tolerance
\* of whose edges it lies.
Candidates(zones, px, py) ==
    LET exact == {k \in DOMAIN zones : _point_in_polygon(px, py, zones[k].vertices)}
    IN  IF exact # {} THEN exact
        ELSE {k \in DOMAIN zones :
                 _point_in_polygon_with_tolerance(px, py, zones[k].vertices, ZONE_TOLERANCE)}

CommonAmong(zones, cand) == {k \in cand : zones[k].zone_type \in _COMMON_TYPES}

\* The names of the zones of least area among the given ones.
SmallestNames(zones, among) ==
    {zones[k].name : k \in {k \in among : \A m \in among : zones[k].area <= zones[m].area}}

\* C25: _find_zone_at_point returns None when the point has no candidate,
\* the candidate when there is one, and among several the common-area
\* candidate of least area if common zones are preferred and there is one,
\* else the candidate of least area; the candidates are the zones that
\* contain the point, or only without any the zones within edge tolerance.
ZoneResolvedInOrder ==
    Asked("_find_zone_at_point") =>
        \A zones \in {CollectZones(stories[1])} :
           \A cand \in {Candidates(zones, Last.arg[1], Last.arg[2])} :
              CASE cand = {} -> Last.returned = <<>>
                [] Cardinality(cand) = 1 ->
                      Last.returned = << zones[CHOOSE k \in cand : TRUE].name >>
                [] Cardinality(cand) > 1 /\ Last.arg[3] /\ CommonAmong(zones, cand) # {} ->
                      /\ Len(Last.returned) = 1
                      /\ Last.returned[1] \in SmallestNames(zones, CommonAmong(zones, cand))
                [] OTHER ->
                      /\ Len(Last.returned) = 1
                      /\ Last.returned[1] \in SmallestNames(zones, cand)

\* C25 witness: a point inside three rooms and the corridor is probed for
\* a common-area wall and resolves to the corridor, which is not the
\* smallest of the zones that contain it.
CommonZonePreferredOverSmaller ==
    /\ Asked("_find_zone_at_point")
    /\ Last.arg[3]
    /\ \E zones \in {CollectZones(stories[1])} :
          \E cand \in {Candidates(zones, Last.arg[1], Last.arg[2])} :
             /\ Cardinality(cand) >= 3
             /\ \E k \in cand : zones[k].name = "Bad"
             /\ _point_in_polygon(Last.arg[1], Last.arg[2], zones[CHOOSE k \in cand : TRUE].vertices)
             /\ "Corridor" \notin SmallestNames(zones, cand)
    /\ Last.returned = << "Corridor" >>
(***************************************************************************)
(* _synthesize_common_zones on stories whose corridor, lobby, vestibule    *)
(* and elevator walls are each none, a wall along x, a wall along y, or    *)
(* both; a core divider wall may stand beside the elevator walls.          *)
(***************************************************************************)
GroupShapes == {"none", "along_x", "along_y", "both"}

GroupWalls(prefix, name, shape, x, y) ==
    (IF shape \in {"along_x", "both"}
     THEN << Wall(<<prefix, "x">>, name, <<x, y>>, <<x + 40, y>>) >> ELSE <<>>)
    \o (IF shape \in {"along_y", "both"}
        THEN << Wall(<<prefix, "y">>, name, <<x, y>>, <<x, y + 30>>) >> ELSE <<>>)

SynthStory(corridor, lobby, vestibule, elevator, divider) ==
    Story("GF", GroupWalls("c", "Corridor West", corridor, 0, 40)
                \o GroupWalls("l", "Lobby West", lobby, 10, 0)
                \o GroupWalls("v", "Vestibule West", vestibule, 60, 40)
                \o GroupWalls("e", "Elevator West", elevator, 110, 40)
                \o (IF divider THEN << Wall("d", "Core Divider", <<110, 40>>, <<110, 50>>) >>
                    ELSE <<>>))

SynthInit ==
    /\ \E corridor \in GroupShapes, lobby \in GroupShapes, vestibule \in GroupShapes,
          elevator \in GroupShapes, divider \in BOOLEAN :
          stories = << SynthStory(corridor, lobby, vestibule, elevator, divider) >>
    /\ graph = NoGraph
    /\ log = <<>>
    /\ hash_order = NoHashOrder

SynthesizeCommonZones ==
    /\ log = <<>>
    /\ log' = << Answer("_synthesize_common_zones", <<>>,
                        _synthesize_common_zones(stories[1])) >>
    /\ UNCHANGED <<stories, graph, hash_order>>

SynthNext == SynthesizeCommonZones

SpecSynth == SynthInit /\ [][SynthNext]_vars

WallDerivedZoneNames == {"Corridor", "Lobby", "Core Vestibule", "Elevator"}

\* C26: every zone that _synthesize_common_zones makes from walls
\* (Corridor, Lobby, Core Vestibule, Elevator) is at least 1 cm wide and at
\* least 1 cm high; a group of walls whose box is thinner yields no zone.
WallDerivedZonesAreNotDegenerate ==
    Asked("_synthesize_common_zones") =>
        \A k \in DOMAIN Last.returned :
           Last.returned[k].name \in WallDerivedZoneNames =>
              /\ Cm(Bounds(Last.returned[k].vertices).max_x
                    - Bounds(Last.returned[k].vertices).min_x) >= 1
              /\ Cm(Bounds(Last.returned[k].vertices).max_y
                    - Bounds(Last.returned[k].vertices).min_y) >= 1
\* C27: if every wall of the story has start # end before snap_endpoints
\* is called, every wall of the story has start # end after it returns.
SnapKeepsWallsNonDegenerate ==
    (/\ log # <<>>
     /\ Last.op = "snap_endpoints"
     /\ \A w \in Range(Last.before[1].walls) : w.start # w.end)
    => \A w \in Range(Last.after[1].walls) : w.start # w.end
(***************************************************************************)
(* Queries on the graph build_connectivity_graph returns for a story of    *)
(* the plan.                                                               *)
(***************************************************************************)
BuiltNodeNames == RoomNames \cup {"Corridor", "Exterior"}

BuildThenQueryNext ==
    \/ log = <<>> /\ BuildConnectivityGraph("GF")
    \/ \E start \in BuiltNodeNames : graph.built /\ ReachableFrom(start)
    \/ \E start, end \in BuiltNodeNames : graph.built /\ HasPath(start, end)

SpecBuiltQuery == BuildInit /\ [][BuildThenQueryNext]_vars

\* C28: on every graph build_connectivity_graph returns, has_path(a, b) is
\* true exactly when b is in reachable_from(a), and has_path(a, b) equals
\* has_path(b, a).
BuiltPathsAgreeWithReach ==
    (Asked("has_path") /\ graph.built) =>
        /\ Last.returned <=> Last.arg[2] \in reachable_from(graph, Last.arg[1])
        /\ Last.returned <=> has_path(graph, Last.arg[2], Last.arg[1])

\* C28 witness: on a built graph has_path answers TRUE for two nodes that
\* no single door joins.
PathOverTwoDoorsFound ==
    /\ Asked("has_path")
    /\ graph.built
    /\ Last.returned
    /\ Last.arg[1] # Last.arg[2]
    /\ ~DoorJoined(graph, Last.arg[1], Last.arg[2])
(***************************************************************************)
(* models/building.py: the Building API that adds, removes and modifies    *)
(* the elements of a story, called in succession on one building.          *)
(***************************************************************************)
MaxIssued == 4            \* GlobalIds generate_ifc_id hands out in one run

\* The outcome of one API call on a story: the story it leaves, what it
\* returned, the exception it raised ("" for none).
Done(story, returned) == [story |-> story, returned |-> returned, raised |-> ""]
Refused(story) == [story |-> story, returned |-> <<>>, raised |-> "ValueError"]

\* next((e for e in elems if e.name.lower() == name.lower()), None): the
\* position of the first match, 0 for None.
FirstByName(elems, name) ==
    IF \E k \in DOMAIN elems : Lower(elems[k].name) = Lower(name)
    THEN CHOOSE k \in DOMAIN elems :
            /\ Lower(elems[k].name) = Lower(name)
            /\ \A m \in 1..(k - 1) : Lower(elems[m].name) # Lower(name)
    ELSE 0

get_wall_by_name(story, name) == FirstByName(story.walls, name)
get_door_by_name(story, name) == FirstByName(story.doors, name)
get_window_by_name(story, name) == FirstByName(story.windows, name)

\* list.index(x): the position of the first element equal to x.
ListIndex(elems, x) ==
    CHOOSE k \in DOMAIN elems : elems[k] = x /\ \A m \in 1..(k - 1) : elems[m] # x

\* list.remove(x)
ListRemove(elems, x) ==
    LET k == ListIndex(elems, x)
    IN  SubSeq(elems, 1, k - 1) \o SubSeq(elems, k + 1, Len(elems))

\* add_wall: Wall(...) is validated (start_and_end_differ), then appended.
add_wall(story, gid, start, end, name) ==
    IF start = end THEN Refused(story)
    ELSE LET wall == Wall(gid, name, start, end)
         IN  Done([story EXCEPT !.walls = Append(@, wall)], wall)

add_door(story, gid, wall_name, name) ==
    LET k == get_wall_by_name(story, wall_name)
    IN  IF k = 0 THEN Refused(story)
        ELSE LET door == Door(gid, name, story.walls[k].global_id, 20, 18)
             IN  Done([story EXCEPT !.doors = Append(@, door)], door)

add_window(story, gid, wall_name, name) ==
    LET k == get_wall_by_name(story, wall_name)
    IN  IF k = 0 THEN Refused(story)
        ELSE LET window == Window(gid, name, story.walls[k].global_id, 20, 24)
             IN  Done([story EXCEPT !.windows = Append(@, window)], window)

\* remove_wall without the two filters on doors and windows.
remove_wall_keeping_openings(story, wall_name) ==
    LET k == get_wall_by_name(story, wall_name)
    IN  IF k = 0 THEN Refused(story)
        ELSE Done([story EXCEPT !.walls = ListRemove(@, story.walls[k])], None)

remove_wall(story, wall_name) ==
    LET k == get_wall_by_name(story, wall_name)
    IN  IF k = 0 THEN Refused(story)
        ELSE LET wall == story.walls[k]
             IN  Done([story EXCEPT
                         !.doors = SelectSeq(@, LAMBDA d : d.wall_id # wall.global_id),
                         !.windows = SelectSeq(@, LAMBDA w : w.wall_id # wall.global_id),
                         !.walls = ListRemove(@, wall)], None)

remove_door(story, door_name) ==
    LET k == get_door_by_name(story, door_name)
    IN  IF k = 0 THEN Refused(story)
        ELSE Done([story EXCEPT !.doors = ListRemove(@, story.doors[k])], None)

remove_window(story, window_name) ==
    LET k == get_window_by_name(story, window_name)
    IN  IF k = 0 THEN Refused(story)
        ELSE Done([story EXCEPT !.windows = ListRemove(@, story.windows[k])], None)

\* _update_boundaries_for_wall_move: the vertices of the apartments'
\* boundaries, and of their spaces', that lie on the old line of an
\* axis-aligned wall are shifted to the new one.  On the grid two
\* coordinates are closer than tol exactly when they are equal.
_update_boundaries_for_wall_move(story, old_start, old_end, new_start, new_end) ==
    LET is_vertical == old_start[1] = old_end[1]
        is_horizontal == old_start[2] = old_end[2]
        Moved(v) ==
            IF is_vertical
            THEN IF /\ v[1] = old_start[1]
                    /\ Min2(old_start[2], old_end[2]) <= v[2]
                    /\ v[2] <= Max2(old_start[2], old_end[2])
                 THEN Pt(new_start[1], v[2]) ELSE v
            ELSE IF /\ v[2] = old_start[2]
                    /\ Min2(old_start[1], old_end[1]) <= v[1]
                    /\ v[1] <= Max2(old_start[1], old_end[1])
                 THEN Pt(v[1], new_start[2]) ELSE v
        Shifted(boundary) == [i \in DOMAIN boundary |-> Moved(boundary[i])]
    IN  IF ~is_vertical /\ ~is_horizontal THEN story
        ELSE [story EXCEPT !.apartments =
                [a \in DOMAIN @ |->
                    [@[a] EXCEPT
                        !.boundary = Shifted(@),
                        !.spaces = [s \in DOMAIN @ |->
                                       [@[s] EXCEPT !.boundary = Shifted(@)]]]]]

\* move_wall: new_start and new_end are points or None; the copy is not
\* validated.
move_wall(story, wall_name, new_start, new_end) ==
    LET k == get_wall_by_name(story, wall_name)
    IN  IF k = 0 THEN Refused(story)
        ELSE LET wall == story.walls[k]
                 eff_new_start == IF new_start # None THEN new_start ELSE wall.start
                 eff_new_end == IF new_end # None THEN new_end ELSE wall.end
                 idx == ListIndex(story.walls, wall)
                 new_wall == [wall EXCEPT !.start = eff_new_start, !.end = eff_new_end]
             IN  Done(_update_boundaries_for_wall_move(
                          [story EXCEPT !.walls[idx] = new_wall],
                          wall.start, wall.end, eff_new_start, eff_new_end),
                      new_wall)

rename_wall(story, old_name, new_name) ==
    LET k == get_wall_by_name(story, old_name)
    IN  IF k = 0 THEN Refused(story)
        ELSE LET wall == story.walls[k]
                 idx == ListIndex(story.walls, wall)
                 new_wall == [wall EXCEPT !.name = new_name]
             IN  Done([story EXCEPT !.walls[idx] = new_wall], new_wall)

\* The GlobalIds handed out so far; generate_ifc_id never repeats one.
Issued == IF log = <<>> THEN 0 ELSE Last.issued
generate_ifc_id == <<"id", Issued + 1>>

\* A building with one empty story, as add_story leaves it.
ApiInit ==
    /\ stories = << Story("GF", <<>>) >>
    /\ graph = NoGraph
    /\ log = <<>>
    /\ hash_order = NoHashOrder

\* _require_story, then the operation on the story found.
OnStory(story_name, Operation(_)) ==
    IF StoryIndex(story_name) = 0
    THEN [story |-> <<>>, returned |-> <<>>, raised |-> StoryNotFoundError]
    ELSE Operation(stories[StoryIndex(story_name)])

\* The building after a call that came out as r.
Stored(story_name, r) ==
    IF StoryIndex(story_name) = 0 THEN stories
    ELSE [stories EXCEPT ![StoryIndex(story_name)] = r.story]

\* The record of an API call; only the last call is kept.
ApiCall(op, arg, r, made) ==
    [op |-> op, arg |-> arg, returned |-> r.returned, raised |-> r.raised,
     before |-> stories, issued |-> IF r.raised = "" THEN Issued + made ELSE Issued]

ApiStoryNames == {"GF", "Roof"}
ApiNewNames == {"South", "East"}
ApiWallNames == {"south", "East"}
ApiEnds == {<<Pt(0, 0), Pt(100, 0)>>, <<Pt(0, 0), Pt(0, 0)>>}

BuildingAddWall(story_name, start, end, name) ==
    /\ Issued < MaxIssued
    /\ \E r \in {OnStory(story_name,
                 LAMBDA story : add_wall(story, generate_ifc_id, start, end, name))} :
          /\ stories' = Stored(story_name, r)
          /\ log' = << ApiCall("add_wall", <<story_name, start, end, name>>, r, 1) >>
          /\ UNCHANGED <<graph, hash_order>>

BuildingAddDoor(story_name, wall_name) ==
    /\ Issued < MaxIssued
    /\ \E r \in {OnStory(story_name,
                 LAMBDA story : add_door(story, generate_ifc_id, wall_name, "Door1"))} :
          /\ stories' = Stored(story_name, r)
          /\ log' = << ApiCall("add_door", <<story_name, wall_name, "Door1">>, r, 1) >>
          /\ UNCHANGED <<graph, hash_order>>

BuildingAddWindow(story_name, wall_name) ==
    /\ Issued < MaxIssued
    /\ \E r \in {OnStory(story_name,
                 LAMBDA story : add_window(story, generate_ifc_id, wall_name, "Win1"))} :
          /\ stories' = Stored(story_name, r)
          /\ log' = << ApiCall("add_window", <<story_name, wall_name, "Win1">>, r, 1) >>
          /\ UNCHANGED <<graph, hash_order>>

BuildingRemoveWall(story_name, wall_name) ==
    \E r \in {OnStory(story_name, LAMBDA story : remove_wall(story, wall_name))} :
       /\ stories' = Stored(story_name, r)
       /\ log' = << ApiCall("remove_wall", <<story_name, wall_name>>, r, 0) >>
       /\ UNCHANGED <<graph, hash_order>>

BuildingRemoveDoor(story_name, door_name) ==
    \E r \in {OnStory(story_name, LAMBDA story : remove_door(story, door_name))} :
       /\ stories' = Stored(story_name, r)
       /\ log' = << ApiCall("remove_door", <<story_name, door_name>>, r, 0) >>
       /\ UNCHANGED <<graph, hash_order>>

BuildingRemoveWindow(story_name, window_name) ==
    \E r \in {OnStory(story_name, LAMBDA story : remove_window(story, window_name))} :
       /\ stories' = Stored(story_name, r)
       /\ log' = << ApiCall("remove_window", <<story_name, window_name>>, r, 0) >>
       /\ UNCHANGED <<graph, hash_order>>

BuildingMoveWall(story_name, wall_name, new_start, new_end) ==
    \E r \in {OnStory(story_name,
              LAMBDA story : move_wall(story, wall_name, new_start, new_end))} :
       /\ stories' = Stored(story_name, r)
       /\ log' = << ApiCall("move_wall", <<story_name, wall_name, new_start, new_end>>,
                            r, 0) >>
       /\ UNCHANGED <<graph, hash_order>>

BuildingRenameWall(story_name, old_name, new_name) ==
    \E r \in {OnStory(story_name, LAMBDA story : rename_wall(story, old_name, new_name))} :
       /\ stories' = Stored(story_name, r)
       /\ log' = << ApiCall("rename_wall", <<story_name, old_name, new_name>>, r, 0) >>
       /\ UNCHANGED <<graph, hash_order>>

\* Story.ensure_tags(), as the engines run it on the story they are given.
EnsureTags ==
    /\ stories' = [stories EXCEPT ![1] = ensure_tags(@)]
    /\ log' = << [op |-> "ensure_tags", arg |-> <<"GF">>, returned |-> None,
                 raised |-> "", before |-> stories, issued |-> Issued] >>
    /\ UNCHANGED <<graph, hash_order>>

ApiNext ==
    \/ \E story_name \in ApiStoryNames, ends \in ApiEnds, name \in ApiNewNames :
          BuildingAddWall(story_name, ends[1], ends[2], name)
    \/ \E wall_name \in ApiWallNames : BuildingAddDoor("GF", wall_name)
    \/ \E wall_name \in ApiWallNames : BuildingAddWindow("GF", wall_name)
    \/ \E wall_name \in ApiWallNames : BuildingRemoveWall("GF", wall_name)
    \/ BuildingRemoveDoor("GF", "door1")
    \/ BuildingRemoveWindow("GF", "win1")
    \/ \E wall_name \in ApiWallNames : BuildingMoveWall("GF", wall_name, None, Pt(100, 20))
    \/ \E old_name \in ApiWallNames, new_name \in ApiNewNames :
          BuildingRenameWall("GF", old_name, new_name)

\* The calls that add and remove elements, with ensure_tags among them.
TagsNext ==
    \/ \E name \in ApiNewNames : BuildingAddWall("GF", Pt(0, 0), Pt(100, 0), name)
    \/ \E wall_name \in ApiWallNames : BuildingAddDoor("GF", wall_name)
    \/ \E wall_name \in ApiWallNames : BuildingAddWindow("GF", wall_name)
    \/ \E wall_name \in ApiWallNames : BuildingRemoveWall("GF", wall_name)
    \/ BuildingRemoveDoor("GF", "door1")
    \/ BuildingRemoveWindow("GF", "win1")
    \/ EnsureTags

SpecApi == ApiInit /\ [][ApiNext]_vars
SpecTags == ApiInit /\ [][TagsNext]_vars

Openings(story) == Range(story.doors) \cup Range(story.windows)

\* C29: after any sequence of add_wall, add_door, add_window, remove_wall,
\* remove_door, remove_window, move_wall and rename_wall calls every door
\* and every window of a story is hosted on a wall of that story, and a
\* remove_wall call that succeeds takes away one wall, the doors and the
\* windows hosted on it, and nothing else.
OpeningsAreHostedOnWallsOfTheStory ==
    /\ \A k \in DOMAIN stories :
          \A o \in Openings(stories[k]) : o.wall_id \in wall_ids(stories[k])
    /\ (Asked("remove_wall") /\ Last.raised = "") =>
          LET before == Last.before[1]
              after == stories[1]
              gone == wall_ids(before) \ wall_ids(after)
          IN  /\ Cardinality(gone) = 1
              /\ Len(after.walls) = Len(before.walls) - 1
              /\ after.doors = SelectSeq(before.doors, LAMBDA d : d.wall_id \notin gone)
              /\ after.windows = SelectSeq(before.windows, LAMBDA w : w.wall_id \notin gone)

\* C29 witness: remove_wall took a wall away together with a door hosted on
\* it, and an opening hosted on another wall is still there.
RemoveWallTookItsDoorOnly ==
    /\ Asked("remove_wall")
    /\ Last.raised = ""
    /\ Len(stories[1].doors) < Len(Last.before[1].doors)
    /\ Openings(stories[1]) # {}
\* C30: once ensure_tags has run, after any sequence of additions, removals
\* and earlier ensure_tags calls, no two walls of the story share a tag,
\* nor do two doors or two windows.
TagsAreUniqueAfterEnsureTags ==
    Asked("ensure_tags") =>
        \A elems \in {stories[1].walls, stories[1].doors, stories[1].windows} :
            \A i, j \in DOMAIN elems : elems[i].tag = elems[j].tag => i = j

====
